---- MODULE Spec2Model ----
(***************************************************************************)
(* A model of the inventory RDBMS: the storage engine (tables, rows,       *)
(* primary-key / unique indexes), the SQL parser and the query executor.   *)
(* Python values are modelled as tagged records, Python dicts as functions *)
(* (or, where order matters, as sequences of key/value records), and a     *)
(* raised exception as an outcome record with exc = TRUE.  `disk` holds    *)
(* the two files of the data directory, `pc` the place of each thread      *)
(* that is inside a call of execute.                                       *)
(***************************************************************************)
EXTENDS Integers, Sequences, FiniteSets, TLC

VARIABLES tables, indexes, last, disk, pc

vars == <<tables, indexes, last, disk, pc>>

\* Largest number of rows a table is grown to.
MaxRows == 2

-----------------------------------------------------------------------------
(* Values: Python None, int and str.                                       *)

Null == [t |-> "null", n |-> 0, s |-> ""]
IntV(n) == [t |-> "int", n |-> n, s |-> ""]
StrV(s) == [t |-> "str", n |-> 0, s |-> s]

\* Python truthiness of a value (`if uk_value`).
Truthy(v) == CASE v.t = "null" -> FALSE
               [] v.t = "int" -> v.n # 0
               [] v.t = "str" -> v.s # ""

\* Decimal numerals of the integers of the model: IntNumerals[n + 1] = str(n).
IntNumerals == <<"0", "1", "2", "3">>

IsNumeral(s) == \E i \in DOMAIN IntNumerals : IntNumerals[i] = s
NumeralValue(s) == (CHOOSE i \in DOMAIN IntNumerals : IntNumerals[i] = s) - 1
NumeralOf(n) == IntNumerals[n + 1]

\* The strings of the model in Python's (code point) order.
StrOrder == <<"", "0", "1", "2", "3", "NULL", "ab">>
StrRank(s) == CHOOSE i \in DOMAIN StrOrder : StrOrder[i] = s
StrLen(s) == IF s = "" THEN 0 ELSE IF s \in {"0", "1", "2", "3"} THEN 1
             ELSE IF s = "ab" THEN 2 ELSE 4

\* Python `a < b`: defined between two ints or two strs, a TypeError otherwise.
Comparable(a, b) == a.t = b.t /\ a.t # "null"
PyLess(a, b) == IF a.t = "int" THEN a.n < b.n ELSE StrRank(a.s) < StrRank(b.s)

-----------------------------------------------------------------------------
(* Python dicts as functions.                                              *)

\* Op applied to the value of v, v evaluated once.
With(v, Op(_)) == CHOOSE y \in {Op(x) : x \in {v}} : TRUE

EmptyDict == [x \in {} |-> 0]
DictSet(d, k, v) == [x \in (DOMAIN d) \cup {k} |-> IF x = k THEN v ELSE d[x]]
DictDel(d, k) == [x \in (DOMAIN d) \ {k} |-> d[x]]

\* A raised exception / a normal return of the type conversion.
Raise(e) == [ok |-> FALSE, v |-> Null, err |-> e]
Return(v) == [ok |-> TRUE, v |-> v, err |-> ""]

\* The n of a VARCHAR(n) type; 0 when the type names no length.
VarcharLen(ty) == CASE ty = "VARCHAR(1)" -> 1
                    [] ty = "VARCHAR(2)" -> 2
                    [] OTHER -> 0

\* StorageEngine._validate_type
_validate_type(value, data_type) ==
    IF value.t = "null" THEN Return(Null)
    ELSE IF data_type = "INT" THEN
        IF value.t = "int" THEN Return(value)
        ELSE IF IsNumeral(value.s) THEN Return(IntV(NumeralValue(value.s)))
        ELSE Raise("Invalid value")
    ELSE IF data_type \in {"VARCHAR", "VARCHAR(1)", "VARCHAR(2)"} THEN
        LET str_val == IF value.t = "int" THEN NumeralOf(value.n) ELSE value.s
        IN  IF data_type # "VARCHAR" /\ StrLen(str_val) > VarcharLen(data_type)
            THEN Raise("Invalid value")
            ELSE Return(StrV(str_val))
    ELSE Return(value)

-----------------------------------------------------------------------------
(* Tables.  A table is [columns, rows, primary_key, unique_keys]; columns  *)
(* is the ordered dict of column definitions, a row a function from the    *)
(* column names and "_row_id" to values.  A name is [tab, col], tab = ""   *)
(* for an unqualified name.  The dict of the tables keeps the order in     *)
(* which its keys were inserted: ord is the place of a table in it.        *)

NoKey == ""
Name(c) == [tab |-> "", col |-> c]
QName(tb, c) == [tab |-> tb, col |-> c]

ColNames(table) == {table.columns[i].name : i \in DOMAIN table.columns}
ColDef(table, c) ==
    table.columns[CHOOSE i \in DOMAIN table.columns : table.columns[i].name = c]
InSeq(x, seq) == \E i \in DOMAIN seq : seq[i] = x

\* row.get(name): the value under the key, None when the row has no such key.
RowGet(row, name) ==
    IF name.tab = "" /\ name.col \in DOMAIN row THEN row[name.col] ELSE Null

\* One operator of a WHERE condition against the row's value: "T" the
\* condition holds, "F" it fails, "E" the comparison raises TypeError.
CondHolds(row_value, op, value) ==
    CASE op \in {"plain", "="} -> IF row_value # value THEN "F" ELSE "T"
      [] op = "!=" -> IF row_value = value THEN "F" ELSE "T"
      [] op \in {">", "<", ">=", "<="} ->
            IF row_value = Null THEN "F"
            ELSE IF ~Comparable(row_value, value) THEN "E"
            ELSE IF op = ">" THEN (IF ~PyLess(value, row_value) THEN "F" ELSE "T")
            ELSE IF op = "<" THEN (IF ~PyLess(row_value, value) THEN "F" ELSE "T")
            ELSE IF op = ">=" THEN (IF PyLess(row_value, value) THEN "F" ELSE "T")
            ELSE (IF PyLess(value, row_value) THEN "F" ELSE "T")
      [] OTHER -> "T"

\* The conjuncts of where_clause from the k-th on, in dict order; the first
\* one that fails or raises decides.
RECURSIVE MatchFrom(_, _, _)
MatchFrom(row, where_clause, k) ==
    IF k > Len(where_clause) THEN "T"
    ELSE LET c == where_clause[k]
             r == CondHolds(RowGet(row, c.col), c.op, c.val)
         IN  IF r = "T" THEN MatchFrom(row, where_clause, k + 1) ELSE r

\* _matches_where_clause with the loop of line 239 left after its first
\* pair: the conjuncts after the first are not looked at.
_matches_where_clause_first(row, where_clause) ==
    IF Len(where_clause) = 0 THEN "T"
    ELSE CondHolds(RowGet(row, where_clause[1].col), where_clause[1].op,
                   where_clause[1].val)

\* StorageEngine._matches_where_clause
_matches_where_clause(row, where_clause) == MatchFrom(row, where_clause, 1)

\* The outcome of an operation of the engine: what it raised or returned,
\* the tables and indexes it leaves in memory, and whether it has called
\* _save_tables (the last thing each operation does before it returns).
Raised(tabs, idxs, e) ==
    [exc |-> TRUE, err |-> e, tables |-> tabs, indexes |-> idxs, ret |-> 0,
     saved |-> FALSE]
Returned(tabs, idxs, r) ==
    [exc |-> FALSE, err |-> "", tables |-> tabs, indexes |-> idxs, ret |-> r,
     saved |-> TRUE]

\* create_table with the test of lines 66-67 made after the table and its
\* index maps are registered (lines 69-78) instead of before.
create_table_late(tabs, idxs, table_name, columns) ==
    LET primary_keys == SelectSeq(columns, LAMBDA c : c.primary_key)
        unique_keys == SelectSeq(columns, LAMBDA c : c.unique)
        keyed == {primary_keys[i].name : i \in DOMAIN primary_keys}
                    \cup {unique_keys[i].name : i \in DOMAIN unique_keys}
    IN  IF table_name \in DOMAIN tabs
        THEN Raised(tabs, idxs, "already exists")
        ELSE IF Len(primary_keys) > 1
        THEN Raised(
                DictSet(tabs, table_name,
                    [columns |-> columns,
                     rows |-> << >>,
                     ord |-> Cardinality(DOMAIN tabs) + 1,
                     primary_key |-> primary_keys[1].name,
                     unique_keys |-> [i \in DOMAIN unique_keys |-> unique_keys[i].name]]),
                DictSet(idxs, table_name, [c \in keyed |-> EmptyDict]),
                "Multiple primary keys not supported")
        ELSE Returned(
                DictSet(tabs, table_name,
                    [columns |-> columns,
                     rows |-> << >>,
                     ord |-> Cardinality(DOMAIN tabs) + 1,
                     primary_key |-> IF Len(primary_keys) > 0
                                     THEN primary_keys[1].name ELSE NoKey,
                     unique_keys |-> [i \in DOMAIN unique_keys |-> unique_keys[i].name]]),
                DictSet(idxs, table_name, [c \in keyed |-> EmptyDict]),
                1)

\* StorageEngine.create_table
create_table(tabs, idxs, table_name, columns) ==
    LET primary_keys == SelectSeq(columns, LAMBDA c : c.primary_key)
        unique_keys == SelectSeq(columns, LAMBDA c : c.unique)
        keyed == {primary_keys[i].name : i \in DOMAIN primary_keys}
                    \cup {unique_keys[i].name : i \in DOMAIN unique_keys}
    IN  IF table_name \in DOMAIN tabs
        THEN Raised(tabs, idxs, "already exists")
        ELSE IF Len(primary_keys) > 1
        THEN Raised(tabs, idxs, "Multiple primary keys not supported")
        ELSE Returned(
                DictSet(tabs, table_name,
                    [columns |-> columns,
                     rows |-> << >>,
                     ord |-> Cardinality(DOMAIN tabs) + 1,
                     primary_key |-> IF Len(primary_keys) > 0
                                     THEN primary_keys[1].name ELSE NoKey,
                     unique_keys |-> [i \in DOMAIN unique_keys |-> unique_keys[i].name]]),
                DictSet(idxs, table_name, [c \in keyed |-> EmptyDict]),
                1)

\* The conversion of one column of an inserted row without the NOT NULL
\* check of lines 96-97.
ValidateColumnNullable(col_def, row_data) ==
    _validate_type(IF col_def.name \in DOMAIN row_data
                   THEN row_data[col_def.name] ELSE Null,
                   col_def.type)

\* The NOT NULL check and type conversion of one column of an inserted row.
ValidateColumn(col_def, row_data) ==
    LET value == IF col_def.name \in DOMAIN row_data
                 THEN row_data[col_def.name] ELSE Null
    IN  IF col_def.not_null /\ value = Null THEN Raise("cannot be NULL")
        ELSE _validate_type(value, col_def.type)

\* insert_row with the row appended (lines 118-121) before the primary-key
\* and unique checks (lines 105-116) instead of after them.
insert_row_early(tabs, idxs, table_name, row_data) ==
    IF table_name \notin DOMAIN tabs THEN Raised(tabs, idxs, "does not exist")
    ELSE
    LET table == tabs[table_name]
        checked == [i \in DOMAIN table.columns |->
                        ValidateColumn(table.columns[i], row_data)]
        bad == {i \in DOMAIN checked : ~checked[i].ok}
        first == CHOOSE i \in bad : \A j \in bad : i <= j
        row_id == Len(table.rows)
        validated_row ==
            [c \in ColNames(table) \cup {"_row_id"} |->
                IF c = "_row_id" THEN IntV(row_id)
                ELSE checked[CHOOSE i \in DOMAIN checked :
                                table.columns[i].name = c].v]
        index == idxs[table_name]
        appended == [tabs EXCEPT ![table_name].rows = Append(@, validated_row)]
        pk_hit == /\ table.primary_key # NoKey
                  /\ validated_row[table.primary_key]
                        \in DOMAIN index[table.primary_key]
        uk_hit == \E i \in DOMAIN table.unique_keys :
                    LET unique_key == table.unique_keys[i]
                        uk_value == validated_row[unique_key]
                    IN  /\ unique_key # table.primary_key
                        /\ Truthy(uk_value)
                        /\ uk_value \in DOMAIN index[unique_key]
    IN  IF bad # {} THEN Raised(tabs, idxs, checked[first].err)
        ELSE IF pk_hit
        THEN Raised(appended, idxs, "Primary key violation: already exists")
        ELSE IF uk_hit
        THEN Raised(appended, idxs, "Unique constraint violation: already exists")
        ELSE Returned(
                appended,
                [idxs EXCEPT ![table_name] =
                    [index_col \in DOMAIN index |->
                        IF validated_row[index_col] # Null
                        THEN DictSet(index[index_col], validated_row[index_col], row_id)
                        ELSE index[index_col]]],
                row_id)

\* StorageEngine.insert_row.  self.indexes[table_name][col] raises KeyError
\* when the table has no index map or the map has no index of col, which
\* a start on files that do not agree can leave (see _load_tables); the
\* loop of lines 123-127 raises it after the row is appended.
insert_row(tabs, idxs, table_name, row_data) ==
    IF table_name \notin DOMAIN tabs THEN Raised(tabs, idxs, "does not exist")
    ELSE
    LET table == tabs[table_name]
        checked == [i \in DOMAIN table.columns |->
                        ValidateColumn(table.columns[i], row_data)]
        bad == {i \in DOMAIN checked : ~checked[i].ok}
        first == CHOOSE i \in bad : \A j \in bad : i <= j
        row_id == Len(table.rows)
        validated_row ==
            [c \in ColNames(table) \cup {"_row_id"} |->
                IF c = "_row_id" THEN IntV(row_id)
                ELSE checked[CHOOSE i \in DOMAIN checked :
                                table.columns[i].name = c].v]
        has_map == table_name \in DOMAIN idxs
        index == idxs[table_name]
        no_index(c) == ~has_map \/ c \notin DOMAIN index
        pk_hit == /\ table.primary_key # NoKey
                  /\ validated_row[table.primary_key]
                        \in DOMAIN index[table.primary_key]
        uk_checked == {i \in DOMAIN table.unique_keys :
                        /\ table.unique_keys[i] # table.primary_key
                        /\ Truthy(validated_row[table.unique_keys[i]])}
        uk_stop == {i \in uk_checked :
                        \/ no_index(table.unique_keys[i])
                        \/ validated_row[table.unique_keys[i]]
                                \in DOMAIN index[table.unique_keys[i]]}
        uk_first == CHOOSE i \in uk_stop : \A j \in uk_stop : i <= j
        appended == [tabs EXCEPT ![table_name].rows = Append(@, validated_row)]
    IN  IF bad # {} THEN Raised(tabs, idxs, checked[first].err)
        ELSE IF table.primary_key # NoKey /\ no_index(table.primary_key)
        THEN Raised(tabs, idxs, "KeyError")
        ELSE IF pk_hit THEN Raised(tabs, idxs, "Primary key violation: already exists")
        ELSE IF uk_stop # {} /\ no_index(table.unique_keys[uk_first])
        THEN Raised(tabs, idxs, "KeyError")
        ELSE IF uk_stop # {}
        THEN Raised(tabs, idxs, "Unique constraint violation: already exists")
        ELSE IF ~has_map THEN Raised(appended, idxs, "KeyError")
        ELSE Returned(
                appended,
                [idxs EXCEPT ![table_name] =
                    [index_col \in DOMAIN index |->
                        IF index_col \in DOMAIN validated_row
                            /\ validated_row[index_col] # Null
                        THEN DictSet(index[index_col], validated_row[index_col], row_id)
                        ELSE index[index_col]]],
                row_id)

\* StorageEngine.select_rows
select_rows(tabs, table_name, has_where, where_clause) ==
    IF table_name \notin DOMAIN tabs THEN [exc |-> TRUE, err |-> "does not exist", rows |-> << >>]
    ELSE
    LET rows == tabs[table_name].rows
        verdict == [i \in DOMAIN rows |-> _matches_where_clause(rows[i], where_clause)]
    IN  IF ~has_where \/ Len(where_clause) = 0
        THEN [exc |-> FALSE, err |-> "", rows |-> rows]
        ELSE IF \E i \in DOMAIN rows : verdict[i] = "E"
        THEN [exc |-> TRUE, err |-> "TypeError", rows |-> << >>]
        ELSE [exc |-> FALSE, err |-> "",
              rows |-> SelectSeq(rows, LAMBDA r : _matches_where_clause(r, where_clause) = "T")]

\* update_rows, the assignments of `updates` from the k-th on applied to the
\* matched row i (Python ordinal i - 1).  An exception leaves what was
\* assigned before it in place.
RECURSIVE UpdateAssign(_, _, _, _, _, _)
UpdateAssign(table, rows, index, i, updates, k) ==
    IF k > Len(updates) THEN [exc |-> FALSE, err |-> "", rows |-> rows, index |-> index]
    ELSE
    LET col_name == updates[k].col
        new_value == updates[k].val
    IN  IF col_name \notin ColNames(table)
        THEN UpdateAssign(table, rows, index, i, updates, k + 1)
        ELSE
        LET col_def == ColDef(table, col_name)
            conflict ==
                /\ col_def.primary_key \/ InSeq(col_name, table.unique_keys)
                /\ \E j \in DOMAIN rows : i # j /\ rows[j][col_name] = new_value
            old_value == rows[i][col_name]
            converted == _validate_type(new_value, col_def.type)
        IN  IF conflict
            THEN [exc |-> TRUE, err |-> "Constraint violation: already exists",
                  rows |-> rows, index |-> index]
            ELSE IF ~converted.ok
            THEN [exc |-> TRUE, err |-> converted.err, rows |-> rows, index |-> index]
            ELSE UpdateAssign(table,
                    [rows EXCEPT ![i][col_name] = converted.v],
                    IF col_name \in DOMAIN index
                    THEN [index EXCEPT ![col_name] =
                            DictSet(DictDel(@, old_value), new_value, i - 1)]
                    ELSE index,
                    i, updates, k + 1)

\* update_rows, the rows from the i-th on.
RECURSIVE UpdateFrom(_, _, _, _, _, _, _)
UpdateFrom(table, rows, index, i, updates, where_clause, updated_count) ==
    IF i > Len(rows)
    THEN [exc |-> FALSE, err |-> "", rows |-> rows, index |-> index,
          updated_count |-> updated_count]
    ELSE
    LET m == _matches_where_clause(rows[i], where_clause)
        a == UpdateAssign(table, rows, index, i, updates, 1)
    IN  IF m = "E"
        THEN [exc |-> TRUE, err |-> "TypeError", rows |-> rows, index |-> index,
              updated_count |-> updated_count]
        ELSE IF m = "F"
        THEN UpdateFrom(table, rows, index, i + 1, updates, where_clause, updated_count)
        ELSE IF a.exc
        THEN [exc |-> TRUE, err |-> a.err, rows |-> a.rows, index |-> a.index,
              updated_count |-> updated_count]
        ELSE UpdateFrom(table, a.rows, a.index, i + 1, updates, where_clause,
                        updated_count + 1)

\* StorageEngine.update_rows
update_rows(tabs, idxs, table_name, updates, where_clause) ==
    IF table_name \notin DOMAIN tabs THEN Raised(tabs, idxs, "does not exist")
    ELSE
    LET table == tabs[table_name]
        u == UpdateFrom(table, table.rows, idxs[table_name], 1, updates, where_clause, 0)
        tabs2 == [tabs EXCEPT ![table_name].rows = u.rows]
        idxs2 == [idxs EXCEPT ![table_name] = u.index]
    IN  IF u.exc THEN Raised(tabs2, idxs2, u.err)
        ELSE Returned(tabs2, idxs2, u.updated_count)

\* StorageEngine._rebuild_indexes: the rows renumbered, the index maps of
\* the table rebuilt from them (a later row overwrites an equal key).
RECURSIVE IndexOfRows(_, _, _)
IndexOfRows(rows, c, n) ==
    IF n = 0 THEN EmptyDict
    ELSE IF rows[n][c] # Null THEN DictSet(IndexOfRows(rows, c, n - 1), rows[n][c], n - 1)
    ELSE IndexOfRows(rows, c, n - 1)

\* _rebuild_indexes without line 231: the index maps are rebuilt, the
\* rows keep the _row_id they had.
_rebuild_indexes_stale(table) ==
    LET keyed == {table.columns[i].name : i \in
                    {j \in DOMAIN table.columns :
                        table.columns[j].primary_key \/ table.columns[j].unique}}
    IN  [rows |-> table.rows,
         index |-> [c \in keyed |-> IndexOfRows(table.rows, c, Len(table.rows))]]

_rebuild_indexes(table) ==
    LET renumbered == [i \in DOMAIN table.rows |->
                          [table.rows[i] EXCEPT !["_row_id"] = IntV(i - 1)]]
        keyed == {table.columns[i].name : i \in
                    {j \in DOMAIN table.columns :
                        table.columns[j].primary_key \/ table.columns[j].unique}}
    IN  [rows |-> renumbered,
         index |-> [c \in keyed |-> IndexOfRows(renumbered, c, Len(renumbered))]]

\* delete_rows without the call of _rebuild_indexes (line 210): the rows
\* are removed, their _row_id and the index maps stay as they were.
delete_rows_no_rebuild(tabs, idxs, table_name, where_clause) ==
    IF table_name \notin DOMAIN tabs THEN Raised(tabs, idxs, "does not exist")
    ELSE
    LET table == tabs[table_name]
        verdict == [i \in DOMAIN table.rows |->
                        _matches_where_clause(table.rows[i], where_clause)]
        rows_to_delete == {i \in DOMAIN table.rows : verdict[i] = "T"}
        kept == SelectSeq(table.rows,
                    LAMBDA r : _matches_where_clause(r, where_clause) # "T")
    IN  IF \E i \in DOMAIN table.rows : verdict[i] = "E"
        THEN Raised(tabs, idxs, "TypeError")
        ELSE Returned([tabs EXCEPT ![table_name].rows = kept], idxs,
                      Cardinality(rows_to_delete))

\* delete_rows whose rebuild starts from an empty self.indexes (line 221
\* as self.indexes = {}): the index maps of the other tables are lost.
delete_rows_reset(tabs, idxs, table_name, where_clause) ==
    IF table_name \notin DOMAIN tabs THEN Raised(tabs, idxs, "does not exist")
    ELSE
    LET table == tabs[table_name]
        verdict == [i \in DOMAIN table.rows |->
                        _matches_where_clause(table.rows[i], where_clause)]
        rows_to_delete == {i \in DOMAIN table.rows : verdict[i] = "T"}
        kept == SelectSeq(table.rows,
                    LAMBDA r : _matches_where_clause(r, where_clause) # "T")
        rebuilt == _rebuild_indexes([table EXCEPT !.rows = kept])
    IN  IF \E i \in DOMAIN table.rows : verdict[i] = "E"
        THEN Raised(tabs, idxs, "TypeError")
        ELSE IF rows_to_delete # {} /\ table_name \notin DOMAIN idxs
        THEN Raised(tabs, idxs, "KeyError")
        ELSE Returned([tabs EXCEPT ![table_name].rows = rebuilt.rows],
                      DictSet(EmptyDict, table_name, rebuilt.index),
                      Cardinality(rows_to_delete))

\* StorageEngine.delete_rows.  The loop of lines 201-209 raises KeyError on
\* the first row it is to remove when the table has no index map.
delete_rows(tabs, idxs, table_name, where_clause) ==
    IF table_name \notin DOMAIN tabs THEN Raised(tabs, idxs, "does not exist")
    ELSE
    LET table == tabs[table_name]
        verdict == [i \in DOMAIN table.rows |->
                        _matches_where_clause(table.rows[i], where_clause)]
        rows_to_delete == {i \in DOMAIN table.rows : verdict[i] = "T"}
        kept == SelectSeq(table.rows,
                    LAMBDA r : _matches_where_clause(r, where_clause) # "T")
        rebuilt == _rebuild_indexes([table EXCEPT !.rows = kept])
    IN  IF \E i \in DOMAIN table.rows : verdict[i] = "E"
        THEN Raised(tabs, idxs, "TypeError")
        ELSE IF rows_to_delete # {} /\ table_name \notin DOMAIN idxs
        THEN Raised(tabs, idxs, "KeyError")
        ELSE Returned([tabs EXCEPT ![table_name].rows = rebuilt.rows],
                      DictSet(idxs, table_name, rebuilt.index),
                      Cardinality(rows_to_delete))

\* StorageEngine.get_table_schema
get_table_schema(tabs, table_name) ==
    IF table_name \notin DOMAIN tabs
    THEN [exc |-> TRUE, err |-> "does not exist", columns |-> << >>, row_count |-> 0]
    ELSE [exc |-> FALSE, err |-> "", columns |-> tabs[table_name].columns,
          row_count |-> Len(tabs[table_name].rows)]

\* StorageEngine.list_tables
list_tables(tabs) ==
    [i \in 1..Cardinality(DOMAIN tabs) |-> CHOOSE tb \in DOMAIN tabs : tabs[tb].ord = i]

\* drop_table without the call of _save_tables (line 320).
drop_table_unsaved(tabs, idxs, table_name) ==
    IF table_name \notin DOMAIN tabs THEN Raised(tabs, idxs, "does not exist")
    ELSE [Returned(
            [tb \in DOMAIN tabs \ {table_name} |->
                [tabs[tb] EXCEPT !.ord = IF @ > tabs[table_name].ord THEN @ - 1 ELSE @]],
            [tb \in DOMAIN idxs \ {table_name} |-> idxs[tb]],
            1) EXCEPT !.saved = FALSE]

\* StorageEngine.drop_table
drop_table(tabs, idxs, table_name) ==
    IF table_name \notin DOMAIN tabs THEN Raised(tabs, idxs, "does not exist")
    ELSE Returned(
            [tb \in DOMAIN tabs \ {table_name} |->
                [tabs[tb] EXCEPT !.ord = IF @ > tabs[table_name].ord THEN @ - 1 ELSE @]],
            [tb \in DOMAIN idxs \ {table_name} |-> idxs[tb]],
            1)

\* The key json.dump writes for a dict key: the decimal numeral of an
\* int, null for None, the text itself for a str.
JsonKey(v) ==
    CASE v.t = "int" -> StrV(NumeralOf(v.n))
      [] v.t = "null" -> StrV("null")
      [] OTHER -> v

\* The JSON text json.dump writes for a stored value, and the value
\* json.load reads from it.
JsonDump(v) ==
    CASE v.t = "int" -> [j |-> "number", text |-> NumeralOf(v.n)]
      [] v.t = "str" -> [j |-> "string", text |-> v.s]
      [] OTHER -> [j |-> "null", text |-> "null"]
JsonLoad(x) ==
    CASE x.j = "number" -> IntV(NumeralValue(x.text))
      [] x.j = "string" -> StrV(x.text)
      [] OTHER -> Null

\* A file that does not exist.
NoFile == [exists |-> FALSE]

\* StorageEngine._save_tables: tables.json holds the tables with the values
\* of their rows as JSON text, indexes.json the index maps, each a JSON
\* object whose members are the entries of the map under their JSON keys
\* (two keys of the map may give the same JSON key; the order of the
\* members is left out).
_save_tables(tabs, idxs) ==
    [tables |-> [exists |-> TRUE,
                 data |-> [tb \in DOMAIN tabs |->
                            [tabs[tb] EXCEPT !.rows =
                                [i \in DOMAIN @ |->
                                    [k \in DOMAIN @[i] |-> JsonDump(@[i][k])]]]]],
     indexes |-> [exists |-> TRUE,
                  data |-> [tb \in DOMAIN idxs |->
                             [c \in DOMAIN idxs[tb] |->
                                {<<JsonKey(v), idxs[tb][c][v]>> :
                                    v \in DOMAIN idxs[tb][c]}]]]]

\* The functions that take each key of S to a member of S[key].
Choices(S) ==
    {g \in [DOMAIN S -> UNION {S[k] : k \in DOMAIN S}] : \A k \in DOMAIN S : g[k] \in S[k]}

\* The dicts json.load may build from the members of a JSON object: each
\* key with one of the values the text gives it (the last in the text).
JsonObjects(members) ==
    Choices([k \in {m[1] : m \in members} |-> {m[2] : m \in {n \in members : n[1] = k}}])

\* StorageEngine._load_tables: the states of memory a start on the files
\* may give.  A file that is missing leaves its dict empty.
_load_tables(files) ==
    LET tabs == IF files.tables.exists
                THEN [tb \in DOMAIN files.tables.data |->
                        [files.tables.data[tb] EXCEPT !.rows =
                            [i \in DOMAIN @ |->
                                [k \in DOMAIN @[i] |-> JsonLoad(@[i][k])]]]]
                ELSE EmptyDict
        data == files.indexes.data
    IN  IF ~files.indexes.exists
        THEN {[tables |-> tabs, indexes |-> EmptyDict]}
        ELSE {[tables |-> tabs, indexes |-> idxs] :
                idxs \in Choices([tb \in DOMAIN data |->
                            Choices([c \in DOMAIN data[tb] |->
                                        JsonObjects(data[tb][c])])])}

-----------------------------------------------------------------------------
(* The parser.  A statement is given by its clauses as the regular         *)
(* expressions of the parser cut them: a literal is [q, s], q telling      *)
(* whether the text s was written in quotes; a WHERE conjunct is           *)
(* [col, op, lit], op = "" when the text holds no comparison operator.     *)

\* QueryParser._parse_value
_parse_value(lit) ==
    IF ~lit.q /\ lit.s = "NULL" THEN Null
    ELSE IF lit.q THEN StrV(lit.s)
    ELSE IF IsNumeral(lit.s) THEN IntV(NumeralValue(lit.s))
    ELSE StrV(lit.s)

\* conditions[col] = cond on a dict kept in insertion order: a key already
\* present keeps its place and takes the new condition.
WhereSet(conditions, cond) ==
    IF \E i \in DOMAIN conditions : conditions[i].col = cond.col
    THEN [i \in DOMAIN conditions |->
            IF conditions[i].col = cond.col THEN cond ELSE conditions[i]]
    ELSE Append(conditions, cond)

RECURSIVE WhereUpTo(_, _)
WhereUpTo(conjuncts, n) ==
    IF n = 0 THEN << >>
    ELSE LET part == conjuncts[n]
             before == WhereUpTo(conjuncts, n - 1)
         IN  IF part.op = "" THEN before
             ELSE WhereSet(before,
                    [col |-> part.col,
                     op |-> IF part.op = "=" THEN "plain" ELSE part.op,
                     val |-> _parse_value(part.lit)])

\* QueryParser._parse_where_clause
_parse_where_clause(conjuncts) == WhereUpTo(conjuncts, Len(conjuncts))

\* _parse_column_definitions without line 88: a PRIMARY KEY column is not
\* made NOT NULL.
_parse_column_definitions_nullable(col_defs) ==
    [i \in DOMAIN col_defs |->
        LET remaining == col_defs[i].constraints
        IN  [name |-> col_defs[i].name,
             type |-> col_defs[i].type,
             not_null |-> "NOT NULL" \in remaining,
             primary_key |-> "PRIMARY KEY" \in remaining,
             unique |-> "UNIQUE" \in remaining /\ "PRIMARY KEY" \notin remaining]]

\* QueryParser._parse_column_definitions
_parse_column_definitions(col_defs) ==
    [i \in DOMAIN col_defs |->
        LET remaining == col_defs[i].constraints
        IN  [name |-> col_defs[i].name,
             type |-> col_defs[i].type,
             not_null |-> "PRIMARY KEY" \in remaining \/ "NOT NULL" \in remaining,
             primary_key |-> "PRIMARY KEY" \in remaining,
             unique |-> "UNIQUE" \in remaining /\ "PRIMARY KEY" \notin remaining]]

\* QueryParser._parse_set_clause
_parse_set_clause(assignments) ==
    [i \in DOMAIN assignments |->
        [col |-> assignments[i].col, val |-> _parse_value(assignments[i].lit)]]

\* The groups of  UPDATE\s+(\w+)\s+SET\s+(.*?)(?:\s+WHERE\s+(.*))?  under
\* re.match: the lazy group takes the shortest text after which the rest of
\* the pattern matches, and the optional group that follows it may match
\* nothing, so group 2 is the empty text; the optional group is then tried
\* where the first assignment begins, not at the blank before WHERE, and
\* does not match: group 3 is None.
UpdateGroups(stmt) ==
    [set_str |-> << >>, has_where |-> FALSE, where_str |-> << >>]

\* QueryParser._parse_update
_parse_update(stmt) ==
    LET g == UpdateGroups(stmt)
    IN  [exc |-> FALSE, err |-> "", type |-> "UPDATE", table |-> stmt.table,
         updates |-> _parse_set_clause(g.set_str),
         has_where |-> g.has_where,
         where |-> IF g.has_where THEN _parse_where_clause(g.where_str) ELSE << >>]

\* _parse_delete without the refusal of lines 247-248: a statement with no
\* WHERE clause is given the empty predicate.
_parse_delete_all(stmt) ==
    [exc |-> FALSE, err |-> "", type |-> "DELETE", table |-> stmt.table,
     has_where |-> TRUE,
     where |-> IF stmt.has_where THEN _parse_where_clause(stmt.where) ELSE << >>]

\* QueryParser._parse_delete
_parse_delete(stmt) ==
    IF stmt.has_where
    THEN [exc |-> FALSE, err |-> "", type |-> "DELETE", table |-> stmt.table,
          has_where |-> TRUE, where |-> _parse_where_clause(stmt.where)]
    ELSE [exc |-> TRUE, err |-> "DELETE without WHERE clause not allowed for safety",
          type |-> "DELETE", table |-> stmt.table, has_where |-> FALSE, where |-> << >>]

\* QueryParser._parse_select
_parse_select(stmt) ==
    [exc |-> FALSE, err |-> "", type |-> "SELECT", table |-> stmt.table,
     columns |-> stmt.columns, has_where |-> stmt.has_where,
     where |-> IF stmt.has_where THEN _parse_where_clause(stmt.where) ELSE << >>]

\* QueryParser._parse_select_with_join and _parse_join_condition
_parse_select_with_join(stmt) ==
    [exc |-> FALSE, err |-> "", type |-> "SELECT_JOIN",
     table1 |-> stmt.table1, table2 |-> stmt.table2,
     join_condition |-> [left |-> stmt.on.left, right |-> stmt.on.right],
     columns |-> stmt.columns, has_where |-> stmt.has_where,
     where |-> IF stmt.has_where THEN _parse_where_clause(stmt.where) ELSE << >>]

\* QueryParser._parse_insert and _parse_values
_parse_insert(stmt) ==
    [exc |-> FALSE, err |-> "", type |-> "INSERT", table |-> stmt.table,
     has_columns |-> stmt.has_columns, columns |-> stmt.columns,
     values |-> [i \in DOMAIN stmt.values |-> _parse_value(stmt.values[i])]]

\* QueryParser._parse_create_table
_parse_create_table(stmt) ==
    [exc |-> FALSE, err |-> "", type |-> "CREATE_TABLE", table |-> stmt.table,
     columns |-> _parse_column_definitions(stmt.col_defs)]

\* QueryParser._parse_show: the statement is SHOW followed by the text
\* stmt.what.
_parse_show(stmt) ==
    IF stmt.what = "TABLES"
    THEN [exc |-> FALSE, err |-> "", type |-> "SHOW_TABLES"]
    ELSE [exc |-> TRUE, err |-> "Invalid SHOW syntax", type |-> "SHOW_TABLES"]

\* QueryParser._parse_describe: stmt.table is the word after DESCRIBE,
\* "" when there is none.
_parse_describe(stmt) ==
    IF stmt.table = ""
    THEN [exc |-> TRUE, err |-> "Invalid DESCRIBE syntax", type |-> "DESCRIBE", table |-> ""]
    ELSE [exc |-> FALSE, err |-> "", type |-> "DESCRIBE", table |-> stmt.table]

\* QueryParser.parse.  A statement of kind "EMPTY" is the text without a
\* word, of which query.split()[0] raises IndexError; one of kind "OTHER"
\* begins with a word that parse does not know.
parse(stmt) ==
    CASE stmt.kind = "EMPTY" ->
            [exc |-> TRUE, err |-> "list index out of range", type |-> ""]
      [] stmt.kind = "OTHER" ->
            [exc |-> TRUE, err |-> "Unsupported query type", type |-> ""]
      [] stmt.kind = "SHOW" -> _parse_show(stmt)
      [] stmt.kind = "DESCRIBE" -> _parse_describe(stmt)
      [] stmt.kind = "CREATE" -> _parse_create_table(stmt)
      [] stmt.kind = "INSERT" -> _parse_insert(stmt)
      [] stmt.kind = "SELECT" -> _parse_select(stmt)
      [] stmt.kind = "SELECT_JOIN" -> _parse_select_with_join(stmt)
      [] stmt.kind = "UPDATE" -> _parse_update(stmt)
      [] stmt.kind = "DELETE" -> _parse_delete(stmt)

-----------------------------------------------------------------------------
(* The executor.  A result record is a sequence of [k, v] fields in the    *)
(* order of the Python dict.                                               *)

Failure(tabs, idxs, e) ==
    [tables |-> tabs, indexes |-> idxs, saved |-> FALSE,
     res |-> [success |-> FALSE, error |-> e]]

RecHas(record, k) == \E i \in DOMAIN record : record[i].k = k
RecGet(record, k) == record[CHOOSE i \in DOMAIN record : record[i].k = k].v
RecSet(record, k, v) ==
    IF RecHas(record, k)
    THEN [i \in DOMAIN record |-> IF record[i].k = k THEN [k |-> k, v |-> v] ELSE record[i]]
    ELSE Append(record, [k |-> k, v |-> v])

\* The keys of a stored row in dict order: the declared columns, then _row_id.
RowKeys(table) == [i \in DOMAIN table.columns |-> table.columns[i].name] \o <<"_row_id">>

\* QueryExecutor._execute_create_table
_execute_create_table(tabs, idxs, parsed_query) ==
    With(create_table(tabs, idxs, parsed_query.table, parsed_query.columns), LAMBDA r :
        IF r.exc THEN Failure(r.tables, r.indexes, r.err)
        ELSE [tables |-> r.tables, indexes |-> r.indexes, saved |-> r.saved,
              res |-> [success |-> TRUE, error |-> ""]])

\* QueryExecutor._execute_insert
_execute_insert(tabs, idxs, parsed_query) ==
    IF parsed_query.table \notin DOMAIN tabs THEN Failure(tabs, idxs, "does not exist")
    ELSE
    LET values == parsed_query.values
        columns == tabs[parsed_query.table].columns
        specified_columns == parsed_query.columns
        named == [c \in {specified_columns[i] : i \in DOMAIN specified_columns} |->
                    values[CHOOSE i \in DOMAIN specified_columns :
                            /\ specified_columns[i] = c
                            /\ \A j \in DOMAIN specified_columns :
                                    specified_columns[j] = c => j <= i]]
        positional == [c \in {columns[i].name : i \in DOMAIN columns} |->
                        values[CHOOSE i \in DOMAIN columns : columns[i].name = c]]
        mismatch == IF parsed_query.has_columns
                    THEN Len(specified_columns) # Len(values)
                    ELSE Len(values) # Len(columns)
    IN  IF mismatch THEN Failure(tabs, idxs, "value count")
        ELSE With(insert_row(tabs, idxs, parsed_query.table,
                             IF parsed_query.has_columns THEN named ELSE positional),
                  LAMBDA r :
                    IF r.exc THEN Failure(r.tables, r.indexes, r.err)
                    ELSE [tables |-> r.tables, indexes |-> r.indexes, saved |-> r.saved,
                          res |-> [success |-> TRUE, error |-> "", row_id |-> r.ret]])

\* The projection of one stored row on the requested columns.
RECURSIVE ProjectUpTo(_, _, _)
ProjectUpTo(row, columns, n) ==
    IF n = 0 THEN << >>
    ELSE LET col == columns[n]
             before == ProjectUpTo(row, columns, n - 1)
         IN  IF col.tab = "" /\ col.col \in DOMAIN row
             THEN RecSet(before, col, row[col.col])
             ELSE before

ProjectRow(table, row, star, columns) ==
    IF star
    THEN LET keys == SelectSeq(RowKeys(table), LAMBDA k : k # "_row_id")
         IN  [i \in DOMAIN keys |-> [k |-> Name(keys[i]), v |-> row[keys[i]]]]
    ELSE ProjectUpTo(row, columns, Len(columns))

\* QueryExecutor._execute_select
_execute_select(tabs, idxs, parsed_query) ==
    With(select_rows(tabs, parsed_query.table, parsed_query.has_where, parsed_query.where),
         LAMBDA got :
            IF got.exc THEN Failure(tabs, idxs, got.err)
            ELSE [tables |-> tabs, indexes |-> idxs, saved |-> FALSE,
                  res |-> [success |-> TRUE, error |-> "",
                           rows |-> [i \in DOMAIN got.rows |->
                                        ProjectRow(tabs[parsed_query.table], got.rows[i],
                                                   parsed_query.columns.star,
                                                   parsed_query.columns.names)],
                           count |-> Len(got.rows)]])

\* QueryExecutor._execute_update
_execute_update(tabs, idxs, parsed_query) ==
    IF ~parsed_query.has_where \/ Len(parsed_query.where) = 0
    THEN Failure(tabs, idxs, "UPDATE without WHERE clause not allowed for safety")
    ELSE With(update_rows(tabs, idxs, parsed_query.table, parsed_query.updates,
                          parsed_query.where),
              LAMBDA r :
                IF r.exc THEN Failure(r.tables, r.indexes, r.err)
                ELSE [tables |-> r.tables, indexes |-> r.indexes, saved |-> r.saved,
                      res |-> [success |-> TRUE, error |-> "", updated_count |-> r.ret]])

\* QueryExecutor._execute_delete.  parsed_query['where'] raises KeyError on
\* a plan that has no predicate; an empty predicate goes to delete_rows.
_execute_delete(tabs, idxs, parsed_query) ==
    IF ~parsed_query.has_where THEN Failure(tabs, idxs, "KeyError")
    ELSE
    With(delete_rows(tabs, idxs, parsed_query.table, parsed_query.where), LAMBDA r :
        IF r.exc THEN Failure(r.tables, r.indexes, r.err)
        ELSE [tables |-> r.tables, indexes |-> r.indexes, saved |-> r.saved,
              res |-> [success |-> TRUE, error |-> "", deleted_count |-> r.ret]])

\* QueryExecutor._evaluate_join_condition
_evaluate_join_condition(row1, row2, condition, table1, table2) ==
    LET left_table == IF condition.left.tab # "" THEN condition.left.tab ELSE table1
        right_table == IF condition.right.tab # "" THEN condition.right.tab ELSE table2
        left_col == Name(condition.left.col)
        right_col == Name(condition.right.col)
        left_val == IF left_table = table1 THEN RowGet(row1, left_col)
                    ELSE RowGet(row2, left_col)
        right_val == IF right_table = table2 THEN RowGet(row2, right_col)
                     ELSE RowGet(row1, right_col)
    IN  left_val = right_val

\* The record of a pair of rows: the columns of row1 under table1.col, then
\* those of row2 under table2.col (an equal key is overwritten in place).
RECURSIVE PrefixUpTo(_, _, _, _, _)
PrefixUpTo(joined_row, tb, keys, row, n) ==
    IF n = 0 THEN joined_row
    ELSE LET before == PrefixUpTo(joined_row, tb, keys, row, n - 1)
         IN  IF keys[n] = "_row_id" THEN before
             ELSE RecSet(before, QName(tb, keys[n]), row[keys[n]])

JoinedRow(tabs, table1, table2, row1, row2) ==
    LET keys1 == RowKeys(tabs[table1])
        keys2 == RowKeys(tabs[table2])
    IN  PrefixUpTo(PrefixUpTo(<< >>, table1, keys1, row1, Len(keys1)),
                   table2, keys2, row2, Len(keys2))

\* The look-up of a name in a joined record with the loop of lines 204-207
\* and 351-354 run to its end (no break): the last key ending in ".name"
\* is taken.
ResolveKeyLast(row, col_name) ==
    IF \E i \in DOMAIN row : row[i].k = col_name THEN <<col_name>>
    ELSE LET hits == {i \in DOMAIN row : col_name.tab = "" /\ row[i].k.col = col_name.col}
         IN  IF hits = {} THEN << >>
             ELSE <<row[CHOOSE i \in hits : \A j \in hits : i >= j].k>>

\* The key of a joined record a name stands for: the name itself when it
\* is a key, else the first key ending in ".name"; << >> when there is none.
ResolveKey(row, col_name) ==
    IF RecHas(row, col_name) THEN <<col_name>>
    ELSE LET hits == {i \in DOMAIN row : col_name.tab = "" /\ row[i].k.col = col_name.col}
         IN  IF hits = {} THEN << >>
             ELSE <<row[CHOOSE i \in hits : \A j \in hits : i <= j].k>>

RECURSIVE MatchJoinFrom(_, _, _)
MatchJoinFrom(row, where_clause, k) ==
    IF k > Len(where_clause) THEN "T"
    ELSE LET c == where_clause[k]
             key == ResolveKey(row, c.col)
             row_value == IF key = << >> THEN Null ELSE RecGet(row, key[1])
             r == CondHolds(row_value, c.op, c.val)
         IN  IF r = "T" THEN MatchJoinFrom(row, where_clause, k + 1) ELSE r

\* QueryExecutor._matches_where_clause_join
_matches_where_clause_join(row, where_clause) == MatchJoinFrom(row, where_clause, 1)

RECURSIVE ProjectJoinUpTo(_, _, _)
ProjectJoinUpTo(row, columns, n) ==
    IF n = 0 THEN << >>
    ELSE LET col == columns[n]
             before == ProjectJoinUpTo(row, columns, n - 1)
             key == ResolveKey(row, col)
         IN  IF key = << >> THEN before ELSE RecSet(before, col, RecGet(row, key[1]))

\* The pairs (i, j) of row positions in left-major order.
Pairs(n1, n2) == [p \in 1..(n1 * n2) |-> <<((p - 1) \div n2) + 1, ((p - 1) % n2) + 1>>]

\* QueryExecutor._execute_select_join
_execute_select_join(tabs, idxs, parsed_query) ==
    LET table1 == parsed_query.table1
        table2 == parsed_query.table2
        rows1 == tabs[table1].rows
        rows2 == tabs[table2].rows
        matching == SelectSeq(Pairs(Len(rows1), Len(rows2)),
                        LAMBDA p : _evaluate_join_condition(rows1[p[1]], rows2[p[2]],
                                        parsed_query.join_condition, table1, table2))
        joined_rows == [i \in DOMAIN matching |->
                          JoinedRow(tabs, table1, table2,
                                    rows1[matching[i][1]], rows2[matching[i][2]])]
        filter == parsed_query.has_where /\ Len(parsed_query.where) > 0
        filtered_rows ==
            IF filter
            THEN SelectSeq(joined_rows,
                    LAMBDA r : _matches_where_clause_join(r, parsed_query.where) = "T")
            ELSE joined_rows
        result_rows ==
            IF parsed_query.columns.star THEN filtered_rows
            ELSE [i \in DOMAIN filtered_rows |->
                    ProjectJoinUpTo(filtered_rows[i], parsed_query.columns.names,
                                    Len(parsed_query.columns.names))]
    IN  IF table1 \notin DOMAIN tabs \/ table2 \notin DOMAIN tabs
        THEN Failure(tabs, idxs, "does not exist")
        ELSE IF filter /\ \E i \in DOMAIN joined_rows :
                    _matches_where_clause_join(joined_rows[i], parsed_query.where) = "E"
        THEN Failure(tabs, idxs, "TypeError")
        ELSE [tables |-> tabs, indexes |-> idxs, saved |-> FALSE,
              res |-> [success |-> TRUE, error |-> "", rows |-> result_rows,
                       count |-> Len(result_rows)]]

\* QueryExecutor._execute_show_tables
_execute_show_tables(tabs, idxs) ==
    [tables |-> tabs, indexes |-> idxs, saved |-> FALSE,
     res |-> [success |-> TRUE, error |-> "", tables |-> list_tables(tabs),
              count |-> Len(list_tables(tabs))]]

\* The text ', '.join(constraints) of a described column, given by the
\* words it joins; None when there is none.
ConstraintsText(col_def) ==
    LET constraints ==
            (IF col_def.primary_key THEN <<"PRIMARY KEY">> ELSE << >>)
            \o (IF col_def.unique /\ ~col_def.primary_key THEN <<"UNIQUE">> ELSE << >>)
            \o (IF col_def.not_null THEN <<"NOT NULL">> ELSE << >>)
    IN  [none |-> constraints = << >>, joined |-> constraints]

\* QueryExecutor._execute_describe
_execute_describe(tabs, idxs, parsed_query) ==
    With(get_table_schema(tabs, parsed_query.table), LAMBDA schema :
        IF schema.exc THEN Failure(tabs, idxs, schema.err)
        ELSE [tables |-> tabs, indexes |-> idxs, saved |-> FALSE,
              res |-> [success |-> TRUE, error |-> "", table |-> parsed_query.table,
                       columns |-> [i \in DOMAIN schema.columns |->
                                      [column |-> schema.columns[i].name,
                                       type |-> schema.columns[i].type,
                                       constraints |-> ConstraintsText(schema.columns[i])]],
                       row_count |-> schema.row_count]])

\* execute without the try/except of lines 16 and 43-47: an exception of
\* the parser leaves execute as an exception.
execute_uncaught(tabs, idxs, query) ==
    With(parse(query), LAMBDA parsed_query :
        IF parsed_query.exc
        THEN [tables |-> tabs, indexes |-> idxs, saved |-> FALSE,
              res |-> [raised |-> parsed_query.err]]
        ELSE CASE parsed_query.type = "CREATE_TABLE" ->
                    _execute_create_table(tabs, idxs, parsed_query)
               [] parsed_query.type = "INSERT" -> _execute_insert(tabs, idxs, parsed_query)
               [] parsed_query.type = "SELECT" -> _execute_select(tabs, idxs, parsed_query)
               [] parsed_query.type = "SELECT_JOIN" ->
                    _execute_select_join(tabs, idxs, parsed_query)
               [] parsed_query.type = "UPDATE" -> _execute_update(tabs, idxs, parsed_query)
               [] parsed_query.type = "DELETE" -> _execute_delete(tabs, idxs, parsed_query)
               [] parsed_query.type = "SHOW_TABLES" -> _execute_show_tables(tabs, idxs)
               [] parsed_query.type = "DESCRIBE" ->
                    _execute_describe(tabs, idxs, parsed_query))


\* QueryExecutor.execute
execute(tabs, idxs, query) ==
    With(parse(query), LAMBDA parsed_query :
        IF parsed_query.exc THEN Failure(tabs, idxs, parsed_query.err)
        ELSE CASE parsed_query.type = "CREATE_TABLE" ->
                    _execute_create_table(tabs, idxs, parsed_query)
               [] parsed_query.type = "INSERT" -> _execute_insert(tabs, idxs, parsed_query)
               [] parsed_query.type = "SELECT" -> _execute_select(tabs, idxs, parsed_query)
               [] parsed_query.type = "SELECT_JOIN" ->
                    _execute_select_join(tabs, idxs, parsed_query)
               [] parsed_query.type = "UPDATE" -> _execute_update(tabs, idxs, parsed_query)
               [] parsed_query.type = "DELETE" -> _execute_delete(tabs, idxs, parsed_query)
               [] parsed_query.type = "SHOW_TABLES" -> _execute_show_tables(tabs, idxs)
               [] parsed_query.type = "DESCRIBE" ->
                    _execute_describe(tabs, idxs, parsed_query))

-----------------------------------------------------------------------------
(* The statements and calls the database is driven with.                   *)

Lit(q, s) == [q |-> q, s |-> s]
LitNull == Lit(FALSE, "NULL")
Lit0 == Lit(FALSE, "0")
Lit1 == Lit(FALSE, "1")
LitEmpty == Lit(TRUE, "")
LitQ1 == Lit(TRUE, "1")
LitAb == Lit(TRUE, "ab")

WhereLiterals == {LitNull, Lit0, Lit1, LitQ1}
Operators == {"=", "!=", ">", "<", ">=", "<="}

\* CREATE TABLE a (id INT PRIMARY KEY, u VARCHAR(1) UNIQUE)
CreateA ==
    [kind |-> "CREATE", table |-> "a",
     col_defs |-> <<[name |-> "id", type |-> "INT", constraints |-> {"PRIMARY KEY"}],
                    [name |-> "u", type |-> "VARCHAR(1)", constraints |-> {"UNIQUE"}]>>]
\* CREATE TABLE b (k INT)
CreateB ==
    [kind |-> "CREATE", table |-> "b",
     col_defs |-> <<[name |-> "k", type |-> "INT", constraints |-> {}]>>]

\* CREATE TABLE c (k INT NOT NULL, p INT UNIQUE PRIMARY KEY, v INT)
CreateC ==
    [kind |-> "CREATE", table |-> "c",
     col_defs |-> <<[name |-> "k", type |-> "INT", constraints |-> {"NOT NULL"}],
                    [name |-> "p", type |-> "INT", constraints |-> {"UNIQUE", "PRIMARY KEY"}],
                    [name |-> "v", type |-> "INT", constraints |-> {}]>>]

InsertInto(tb, has_columns, columns, values) ==
    [kind |-> "INSERT", table |-> tb, has_columns |-> has_columns,
     columns |-> columns, values |-> values]

\* INSERT INTO a VALUES (x, y), INSERT INTO a VALUES (x), INSERT INTO c VALUES (x),
\* INSERT INTO a (id) VALUES (x), INSERT INTO a (u, id) VALUES ('1', y),
\* INSERT INTO a (u) VALUES ('1'), INSERT INTO a (id, u) VALUES (1),
\* INSERT INTO a (id, zz) VALUES (0, 1)
InsertStatements ==
    {InsertInto("a", FALSE, << >>, <<x, y>>) :
        x \in {LitNull, Lit0, Lit1, LitQ1, LitAb},
        y \in {LitNull, LitEmpty, LitQ1, Lit1, LitAb}}
    \cup {InsertInto(tb, FALSE, << >>, <<Lit1>>) : tb \in {"a", "c"}}
    \cup {InsertInto("a", TRUE, <<"id">>, <<x>>) : x \in {Lit0, LitQ1}}
    \cup {InsertInto("a", TRUE, <<"u", "id">>, <<LitQ1, y>>) : y \in {Lit0, Lit1}}
    \cup {InsertInto("a", TRUE, <<"u">>, <<LitQ1>>),
          InsertInto("a", TRUE, <<"id", "u">>, <<Lit1>>),
          InsertInto("a", TRUE, <<"id", "zz">>, <<Lit0, Lit1>>)}

Conjunct(c, op, lit) == [col |-> c, op |-> op, lit |-> lit]

\* The WHERE clauses on table a: one comparison of a column with a literal.
WhereClauses ==
    {<<Conjunct(Name(c), op, lit)>> :
        c \in {"id", "u"}, op \in Operators, lit \in WhereLiterals}

Star == [star |-> TRUE, names |-> << >>]
Columns(names) == [star |-> FALSE, names |-> names]

\* SELECT * FROM t, SELECT * FROM a WHERE c op x, SELECT u, id FROM a WHERE id = x,
\* SELECT * FROM a WHERE id >= 0 AND u != '1', SELECT * FROM a WHERE u > 0 AND id = 1
SelectStatements ==
    {[kind |-> "SELECT", table |-> tb, columns |-> Star, has_where |-> FALSE,
      where |-> << >>] : tb \in {"a", "c"}}
    \cup {[kind |-> "SELECT", table |-> "a", columns |-> Star, has_where |-> TRUE,
           where |-> w] : w \in WhereClauses}
    \cup {[kind |-> "SELECT", table |-> "a", columns |-> Star, has_where |-> TRUE,
           where |-> w] :
            w \in {<<Conjunct(Name("id"), ">=", Lit0), Conjunct(Name("u"), "!=", LitQ1)>>,
                   <<Conjunct(Name("u"), ">", Lit0), Conjunct(Name("id"), "=", Lit1)>>}}
    \cup {[kind |-> "SELECT", table |-> "a", columns |-> Columns(<<Name("u"), Name("id")>>),
           has_where |-> TRUE, where |-> <<Conjunct(Name("id"), "=", x)>>] :
            x \in {Lit0, Lit1}}

\* DELETE FROM t, DELETE FROM t WHERE c op x
DeleteStatements ==
    {[kind |-> "DELETE", table |-> "a", has_where |-> FALSE, where |-> << >>]}
    \cup {[kind |-> "DELETE", table |-> "a", has_where |-> TRUE, where |-> w] :
            w \in WhereClauses}
    \cup {[kind |-> "DELETE", table |-> "c", has_where |-> TRUE,
           where |-> <<Conjunct(Name("id"), "=", Lit0)>>]}

\* UPDATE a SET c = x, UPDATE a SET c = x WHERE id = y
UpdateStatements ==
    {[kind |-> "UPDATE", table |-> "a", sets |-> <<[col |-> c, lit |-> x]>>,
      has_where |-> hw, where |-> IF hw THEN <<Conjunct(Name("id"), "=", y)>> ELSE << >>] :
        c \in {"id", "u"}, x \in {LitNull, LitQ1},
        y \in {Lit0, Lit1}, hw \in BOOLEAN}

\* The statements of the two-table runs:
\* INSERT INTO a VALUES (x, y), INSERT INTO b VALUES (x)
InsertStatementsTwo ==
    {InsertInto("a", FALSE, << >>, <<x, y>>) : x \in {Lit0, Lit1}, y \in {LitNull, LitQ1}}
    \cup {InsertInto("b", FALSE, << >>, <<x>>) : x \in {LitNull, Lit0, Lit1}}

\* INSERT INTO c VALUES (1, 0, NULL), INSERT INTO c VALUES (1, 1, 0)
InsertStatementsSelf ==
    {InsertInto("c", FALSE, << >>, <<Lit1, Lit0, LitNull>>),
     InsertInto("c", FALSE, << >>, <<Lit1, Lit1, Lit0>>)}

\* DELETE FROM a WHERE id = 0, DELETE FROM b WHERE k = 1, DELETE FROM b WHERE k != 1
DeleteStatementsTwo ==
    {[kind |-> "DELETE", table |-> "a", has_where |-> TRUE,
      where |-> <<Conjunct(Name("id"), "=", Lit0)>>],
     [kind |-> "DELETE", table |-> "b", has_where |-> TRUE,
      where |-> <<Conjunct(Name("k"), "=", Lit1)>>],
     [kind |-> "DELETE", table |-> "b", has_where |-> TRUE,
      where |-> <<Conjunct(Name("k"), "!=", Lit1)>>]}

Join(table1, table2, left, right, columns, where) ==
    [kind |-> "SELECT_JOIN", table1 |-> table1, table2 |-> table2,
     on |-> [left |-> left, right |-> right], columns |-> columns,
     has_where |-> where # << >>, where |-> where]

\* SELECT * FROM t1 JOIN t2 ON l = r
\* SELECT cols FROM a JOIN b ON a.id = b.k [WHERE c op x]
JoinStatements ==
    {Join("a", "b", QName("a", "id"), QName("b", "k"), Star, << >>),
     Join("a", "b", QName("a", "u"), QName("b", "k"), Star, << >>),
     Join("a", "b", Name("id"), Name("k"), Star, << >>),
     Join("a", "b", QName("b", "k"), QName("a", "id"), Star, << >>),
     Join("a", "b", QName("a", "x"), QName("b", "y"), Star, << >>),
     Join("b", "a", QName("b", "k"), QName("a", "id"), Star, << >>),
     Join("a", "a", QName("a", "id"), QName("a", "id"), Star, << >>),
     Join("b", "b", Name("k"), Name("k"), Star, << >>),
     Join("a", "c", QName("a", "id"), QName("c", "k"), Star, << >>),
     Join("a", "b", QName("a", "id"), QName("b", "k"), Star,
          <<Conjunct(Name("k"), ">=", Lit1)>>),
     Join("a", "b", QName("a", "id"), QName("b", "k"), Star,
          <<Conjunct(QName("a", "u"), "=", LitNull)>>),
     Join("a", "b", QName("a", "id"), QName("b", "k"), Star,
          <<Conjunct(Name("u"), ">", Lit0)>>),
     Join("a", "b", QName("a", "id"), QName("b", "k"),
          Columns(<<Name("k"), QName("a", "u"), Name("x")>>), << >>),
     Join("a", "a", QName("a", "id"), QName("a", "id"),
          Columns(<<Name("id"), Name("u")>>), << >>)}

\* SELECT * FROM c JOIN c ON c.k = c.k
JoinStatementsSelf ==
    {Join("c", "c", QName("c", "k"), QName("c", "k"), Star, << >>)}

\* Joins of b and c, which both have a column k:
\* SELECT k, c.k, zz FROM b JOIN c ON b.k = c.p,
\* SELECT * FROM b JOIN c ON b.k = c.p WHERE k = 0,
\* SELECT * FROM c JOIN b ON c.p = b.k WHERE k = 0,
\* SELECT * FROM b JOIN c ON b.k = c.p WHERE zz >= 0,
\* SELECT k FROM b JOIN c ON b.k = c.p WHERE zz = NULL AND c.k = 1
JoinStatementsShared ==
    {Join("b", "c", QName("b", "k"), QName("c", "p"),
          Columns(<<Name("k"), QName("c", "k"), Name("zz")>>), << >>),
     Join("b", "c", QName("b", "k"), QName("c", "p"), Star,
          <<Conjunct(Name("k"), "=", Lit0)>>),
     Join("c", "b", QName("c", "p"), QName("b", "k"), Star,
          <<Conjunct(Name("k"), "=", Lit0)>>),
     Join("b", "c", QName("b", "k"), QName("c", "p"), Star,
          <<Conjunct(Name("zz"), ">=", Lit0)>>),
     Join("b", "c", QName("b", "k"), QName("c", "p"), Columns(<<Name("k")>>),
          <<Conjunct(Name("zz"), "=", LitNull), Conjunct(QName("c", "k"), "=", Lit1)>>)}

\* The assignments and predicates of the direct calls of the engine.
CallUpdates ==
    {<<[col |-> "id", val |-> v]>> : v \in {Null, IntV(1), StrV("1"), StrV("ab")}}
    \cup {<<[col |-> "u", val |-> v]>> : v \in {Null, StrV("1")}}
    \cup {<<[col |-> "u", val |-> StrV("1")], [col |-> "id", val |-> w]>> :
            w \in {IntV(1), StrV("ab")}}
Cond(c, op, v) == [col |-> Name(c), op |-> op, val |-> v]
CallPredicates ==
    {<<Cond("id", "plain", IntV(0))>>, <<Cond("id", ">=", IntV(0))>>,
     <<Cond("u", "!=", StrV("1")), Cond("id", ">=", IntV(0))>>}
CallRows ==
    {[c \in {"id", "u"} |-> IF c = "id" THEN v ELSE w] :
        v \in {IntV(0), StrV("1")}, w \in {Null, StrV("")}}

\* The direct calls of update_rows in the two-table runs:
\* update_rows('b', {'k': 1}, {'k': 0}), update_rows('a', {'u': None}, {'id': 0})
CallUpdatesTwo ==
    {[table |-> "b", updates |-> <<[col |-> "k", val |-> IntV(1)]>>,
      where |-> <<Cond("k", "plain", IntV(0))>>],
     [table |-> "a", updates |-> <<[col |-> "u", val |-> Null]>>,
      where |-> <<Cond("id", "plain", IntV(0))>>]}

-----------------------------------------------------------------------------
(* The state machine.  `last` holds the statement or call that ran last    *)
(* and what it returned, until the caller has taken the result.            *)

Idle == [kind |-> "idle"]

\* The threads that call execute, and a thread that is in no call.
Threads == {1, 2}
Resting == [at |-> "rest"]

\* The engine is started on an empty data directory.
Init ==
    /\ disk = [tables |-> NoFile, indexes |-> NoFile]
    /\ tables = EmptyDict
    /\ indexes = EmptyDict
    /\ last = Idle
    /\ pc = [t \in Threads |-> Resting]

\* No table is grown past MaxRows rows.
Room(tb) == tb \in DOMAIN tables => Len(tables[tb].rows) < MaxRows

\* executor.execute(query)
Execute(query) ==
    /\ last.kind = "idle"
    /\ query.kind = "INSERT" => Room(query.table)
    /\ \E r \in {execute(tables, indexes, query)} :
           /\ tables' = r.tables
           /\ indexes' = r.indexes
           /\ disk' = IF r.saved THEN _save_tables(r.tables, r.indexes) ELSE disk
           /\ last' = [kind |-> "execute", query |-> query, res |-> r.res]
    /\ UNCHANGED pc

\* What a direct call of the storage engine leaves in `last`.
Called(name, tb, args, r) ==
    [kind |-> name, table |-> tb, args |-> args,
     exc |-> r.exc, err |-> r.err, ret |-> r.ret]

\* storage.insert_row(table_name, row_data)
InsertRow(table_name, row_data) ==
    /\ last.kind = "idle"
    /\ Room(table_name)
    /\ \E r \in {insert_row(tables, indexes, table_name, row_data)} :
           /\ tables' = r.tables
           /\ indexes' = r.indexes
           /\ disk' = IF r.saved THEN _save_tables(r.tables, r.indexes) ELSE disk
           /\ last' = Called("insert_row", table_name, row_data, r)
    /\ UNCHANGED pc

\* storage.update_rows(table_name, updates, where_clause)
UpdateRows(table_name, updates, where_clause) ==
    /\ last.kind = "idle"
    /\ \E r \in {update_rows(tables, indexes, table_name, updates, where_clause)} :
           /\ tables' = r.tables
           /\ indexes' = r.indexes
           /\ disk' = IF r.saved THEN _save_tables(r.tables, r.indexes) ELSE disk
           /\ last' = Called("update_rows", table_name,
                             [updates |-> updates, where |-> where_clause], r)
    /\ UNCHANGED pc

\* storage.delete_rows(table_name, where_clause)
DeleteRows(table_name, where_clause) ==
    /\ last.kind = "idle"
    /\ \E r \in {delete_rows(tables, indexes, table_name, where_clause)} :
           /\ tables' = r.tables
           /\ indexes' = r.indexes
           /\ disk' = IF r.saved THEN _save_tables(r.tables, r.indexes) ELSE disk
           /\ last' = Called("delete_rows", table_name, where_clause, r)
    /\ UNCHANGED pc

\* The caller takes the result and goes on to its next statement.
TakeResult ==
    /\ last.kind # "idle"
    /\ last' = Idle
    /\ UNCHANGED <<tables, indexes, disk, pc>>

Next ==
    \/ Execute(CreateA)
    \/ \E q \in InsertStatements : Execute(q)
    \/ \E q \in SelectStatements : Execute(q)
    \/ \E q \in UpdateStatements : Execute(q)
    \/ \E q \in DeleteStatements : Execute(q)
    \/ \E row_data \in CallRows : InsertRow("a", row_data)
    \/ \E u \in CallUpdates, w \in CallPredicates : UpdateRows("a", u, w)
    \/ \E w \in CallPredicates \cup {<< >>} : DeleteRows("a", w)
    \/ TakeResult

Spec == Init /\ [][Next]_vars

\* The runs on the tables a, b and c, that the joins are checked on.
NextTwo ==
    \/ \E q \in {CreateA, CreateB, CreateC} : Execute(q)
    \/ \E q \in InsertStatementsTwo \cup InsertStatementsSelf : Execute(q)
    \/ \E q \in DeleteStatementsTwo : Execute(q)
    \/ \E q \in JoinStatements \cup JoinStatementsSelf \cup JoinStatementsShared :
            Execute(q)
    \/ \E call \in CallUpdatesTwo : UpdateRows(call.table, call.updates, call.where)
    \/ TakeResult

SpecTwo == Init /\ [][NextTwo]_vars

-----------------------------------------------------------------------------
(* The runs in which the engine is stopped and started again on its       *)
(* files, tables are dropped, and statements of every kind are executed.  *)

\* CREATE TABLE a (k INT)
CreateAgain ==
    [kind |-> "CREATE", table |-> "a",
     col_defs |-> <<[name |-> "k", type |-> "INT", constraints |-> {}]>>]
\* CREATE TABLE d (x INT PRIMARY KEY, y INT PRIMARY KEY)
CreateD ==
    [kind |-> "CREATE", table |-> "d",
     col_defs |-> <<[name |-> "x", type |-> "INT", constraints |-> {"PRIMARY KEY"}],
                    [name |-> "y", type |-> "INT", constraints |-> {"PRIMARY KEY"}]>>]
CreateStatements == {CreateA, CreateC, CreateAgain, CreateD}

\* INSERT INTO a VALUES (0, NULL), INSERT INTO a VALUES (1, '1'),
\* INSERT INTO c VALUES (1, 0, NULL)
InsertStatementsFiles ==
    {InsertInto("a", FALSE, << >>, <<Lit0, LitNull>>),
     InsertInto("a", FALSE, << >>, <<Lit1, LitQ1>>),
     InsertInto("c", FALSE, << >>, <<Lit1, Lit0, LitNull>>)}

\* A WHERE conjunct whose text holds no comparison operator.
Bare(text) == [col |-> Name(text), op |-> "", lit |-> Lit(FALSE, "")]

\* DELETE FROM a, DELETE FROM a WHERE id = 0, DELETE FROM c WHERE p = 0,
\* DELETE FROM a WHERE u, DELETE FROM a WHERE u IS NULL
DeleteStatementsFiles ==
    {[kind |-> "DELETE", table |-> "a", has_where |-> FALSE, where |-> << >>],
     [kind |-> "DELETE", table |-> "a", has_where |-> TRUE,
      where |-> <<Conjunct(Name("id"), "=", Lit0)>>],
     [kind |-> "DELETE", table |-> "c", has_where |-> TRUE,
      where |-> <<Conjunct(Name("p"), "=", Lit0)>>],
     [kind |-> "DELETE", table |-> "a", has_where |-> TRUE, where |-> <<Bare("u")>>],
     [kind |-> "DELETE", table |-> "a", has_where |-> TRUE,
      where |-> <<Bare("u IS NULL")>>]}

Select(tb, columns, has_where, where) ==
    [kind |-> "SELECT", table |-> tb, columns |-> columns, has_where |-> has_where,
     where |-> where]

\* SELECT * FROM a, SELECT * FROM c, SELECT * FROM zz, SELECT * FROM a WHERE u,
\* SELECT * FROM a WHERE u IS NULL, SELECT * FROM a WHERE u > 0,
\* SELECT _row_id FROM a, SELECT id, _row_id FROM a WHERE id = 1
SelectStatementsFiles ==
    {Select("a", Star, FALSE, << >>),
     Select("c", Star, FALSE, << >>),
     Select("zz", Star, FALSE, << >>),
     Select("a", Star, TRUE, <<Bare("u")>>),
     Select("a", Star, TRUE, <<Bare("u IS NULL")>>),
     Select("a", Star, TRUE, <<Conjunct(Name("u"), ">", Lit0)>>),
     Select("a", Columns(<<Name("_row_id")>>), FALSE, << >>),
     Select("a", Columns(<<Name("id"), Name("_row_id")>>), TRUE,
            <<Conjunct(Name("id"), "=", Lit1)>>)}

\* SELECT * FROM a JOIN c ON a.id = c.p,
\* SELECT _row_id, a._row_id, a.id FROM a JOIN c ON a.id = c.p
JoinStatementsFiles ==
    {Join("a", "c", QName("a", "id"), QName("c", "p"), Star, << >>),
     Join("a", "c", QName("a", "id"), QName("c", "p"),
          Columns(<<Name("_row_id"), QName("a", "_row_id"), QName("a", "id")>>), << >>)}

\* UPDATE a SET u = '1' WHERE id = 0
UpdateStatementsFiles ==
    {[kind |-> "UPDATE", table |-> "a", sets |-> <<[col |-> "u", lit |-> LitQ1]>>,
      has_where |-> TRUE, where |-> <<Conjunct(Name("id"), "=", Lit0)>>]}

\* SHOW TABLES, SHOW x, DESCRIBE a, DESCRIBE c, DESCRIBE zz, DESCRIBE,
\* the empty text, and a text that begins with an unknown word.
OtherStatements ==
    {[kind |-> "SHOW", what |-> w] : w \in {"TABLES", "x"}}
    \cup {[kind |-> "DESCRIBE", table |-> tb] : tb \in {"a", "c", "zz", ""}}
    \cup {[kind |-> "EMPTY"], [kind |-> "OTHER"]}

\* storage.create_table(table_name, columns)
CreateTable(table_name, columns) ==
    /\ last.kind = "idle"
    /\ \E r \in {create_table(tables, indexes, table_name, columns)} :
           /\ tables' = r.tables
           /\ indexes' = r.indexes
           /\ disk' = IF r.saved THEN _save_tables(r.tables, r.indexes) ELSE disk
           /\ last' = Called("create_table", table_name, columns, r)
    /\ UNCHANGED pc

\* storage.drop_table(table_name)
DropTable(table_name) ==
    /\ last.kind = "idle"
    /\ \E r \in {drop_table(tables, indexes, table_name)} :
           /\ tables' = r.tables
           /\ indexes' = r.indexes
           /\ disk' = IF r.saved THEN _save_tables(r.tables, r.indexes) ELSE disk
           /\ last' = Called("drop_table", table_name, << >>, r)
    /\ UNCHANGED pc

\* The process ends and a new StorageEngine is made on the same directory.
Reopen ==
    /\ last.kind = "idle"
    /\ \E m \in _load_tables(disk) :
           /\ tables' = m.tables
           /\ indexes' = m.indexes
    /\ last' = [kind |-> "reopen"]
    /\ UNCHANGED <<disk, pc>>

\* The process is stopped inside _save_tables, after tables.json is written
\* (line 43) and before indexes.json is (line 45), and is started again.
StopInSave(query) ==
    /\ last.kind = "idle"
    /\ query.kind = "INSERT" => Room(query.table)
    /\ \E r \in {execute(tables, indexes, query)} :
           /\ r.saved
           /\ disk' = [tables |-> _save_tables(r.tables, r.indexes).tables,
                       indexes |-> disk.indexes]
           /\ \E m \in _load_tables(disk') :
                  /\ tables' = m.tables
                  /\ indexes' = m.indexes
    /\ last' = [kind |-> "restart", query |-> query]
    /\ UNCHANGED pc

NextFiles ==
    \/ \E q \in CreateStatements : Execute(q)
    \/ \E q \in InsertStatementsFiles : Execute(q)
    \/ \E q \in DeleteStatementsFiles : Execute(q)
    \/ \E q \in SelectStatementsFiles \cup JoinStatementsFiles : Execute(q)
    \/ \E q \in UpdateStatementsFiles \cup OtherStatements : Execute(q)
    \/ \E q \in {CreateAgain, CreateD} :
            CreateTable(q.table, _parse_column_definitions(q.col_defs))
    \/ \E tb \in {"a", "c"} : DropTable(tb)
    \/ Reopen
    \/ \E q \in CreateStatements \cup InsertStatementsFiles : StopInSave(q)
    \/ TakeResult

SpecFiles == Init /\ [][NextFiles]_vars

-----------------------------------------------------------------------------
(* The runs in which two threads call execute on one executor.  Nothing   *)
(* in execute, the executor or the engine takes a lock, so the steps of   *)
(* one call of insert_row may come between the steps of another.          *)

\* INSERT INTO a VALUES (0, NULL), INSERT INTO a VALUES (0, '1'),
\* INSERT INTO a VALUES (1, '1')
ThreadStatements ==
    {InsertInto("a", FALSE, << >>, <<Lit0, LitNull>>),
     InsertInto("a", FALSE, << >>, <<Lit0, LitQ1>>),
     InsertInto("a", FALSE, << >>, <<Lit1, LitQ1>>)}

\* The threads that are inside a call of execute.
Running == {t \in Threads : pc[t].at \notin {"rest", "done"}}

\* Thread t calls execute(query): the statement is parsed and insert_row
\* validates the row and makes its primary-key and unique checks (lines
\* 85-116).  `start` is the database the first of the calls under way
\* began on.
Begin(t, query) ==
    /\ last.kind = "idle"
    /\ pc[t].at = "rest"
    /\ query.table \in DOMAIN tables =>
            Len(tables[query.table].rows)
                + Cardinality({u \in Threads : pc[u].at \in {"checked", "numbered"}})
                    < MaxRows
    /\ \E r \in {execute(tables, indexes, query)} :
        \E start \in {IF \E u \in Threads : pc[u].at # "rest"
                       THEN pc[CHOOSE u \in Threads : pc[u].at # "rest"].start
                       ELSE [tables |-> tables, indexes |-> indexes]} :
            pc' = [pc EXCEPT ![t] =
                    IF r.res.success
                    THEN [at |-> "checked", query |-> query, start |-> start,
                          validated_row |->
                              r.tables[query.table].rows[Len(r.tables[query.table].rows)]]
                    ELSE [at |-> "done", query |-> query, start |-> start,
                          res |-> r.res]]
    /\ UNCHANGED <<tables, indexes, last, disk>>

\* insert_row lines 119-120: row_id = len(table['rows']), put in the row.
Number(t) ==
    /\ pc[t].at = "checked"
    /\ pc' = [pc EXCEPT ![t].at = "numbered",
                        ![t].validated_row["_row_id"] =
                            IntV(Len(tables[pc[t].query.table].rows))]
    /\ UNCHANGED <<tables, indexes, last, disk>>

\* insert_row line 121: the row is appended.
AppendRow(t) ==
    /\ pc[t].at = "numbered"
    /\ tables' = [tables EXCEPT ![pc[t].query.table].rows =
                        Append(@, pc[t].validated_row)]
    /\ pc' = [pc EXCEPT ![t].at = "appended"]
    /\ UNCHANGED <<indexes, last, disk>>

\* insert_row lines 123-130 and _execute_insert lines 97-101: the indexes
\* take the row's keys, the files are written, execute returns.
IndexRow(t) ==
    /\ pc[t].at = "appended"
    /\ LET tb == pc[t].query.table
           row == pc[t].validated_row
           row_id == row["_row_id"].n
       IN  /\ indexes' = [indexes EXCEPT ![tb] =
                            [index_col \in DOMAIN @ |->
                                IF row[index_col] # Null
                                THEN DictSet(@[index_col], row[index_col], row_id)
                                ELSE @[index_col]]]
           /\ disk' = _save_tables(tables, indexes')
           /\ pc' = [pc EXCEPT ![t] =
                        [at |-> "done", query |-> pc[t].query, start |-> pc[t].start,
                         res |-> [success |-> TRUE, error |-> "", row_id |-> row_id]]]
    /\ UNCHANGED <<tables, last>>

\* The calls have returned and their results are taken.
Collect ==
    /\ Running = {}
    /\ \E t \in Threads : pc[t].at = "done"
    /\ pc' = [t \in Threads |-> Resting]
    /\ UNCHANGED <<tables, indexes, last, disk>>

NextThreads ==
    \/ /\ \A t \in Threads : pc[t].at = "rest"
       /\ \/ Execute(CreateA)
          \/ \E q \in DeleteStatementsTwo : Execute(q)
          \/ TakeResult
    \/ \E t \in Threads, q \in ThreadStatements : Begin(t, q)
    \/ \E t \in Threads : Number(t)
    \/ \E t \in Threads : AppendRow(t)
    \/ \E t \in Threads : IndexRow(t)
    \/ Collect

SpecThreads == Init /\ [][NextThreads]_vars

-----------------------------------------------------------------------------
(* Properties of the engine.                                               *)

\* The columns of a table that carry an index: the primary key and the
\* UNIQUE columns.
KeyedColumns(table) ==
    {c \in ColNames(table) : ColDef(table, c).primary_key \/ ColDef(table, c).unique}

\* The last statement or call changed the data and succeeded.
MutationSucceeded ==
    \/ /\ last.kind = "execute"
       /\ last.query.kind \in {"CREATE", "INSERT", "UPDATE", "DELETE"}
       /\ last.res.success
    \/ /\ last.kind \in {"insert_row", "update_rows", "delete_rows"}
       /\ ~last.exc

\* C1: no two rows of a table hold the same non-Null value in the
\* primary-key column or in a UNIQUE column, whatever the value is.
UniquenessInvariant ==
    \A tb \in DOMAIN tables : \A c \in KeyedColumns(tables[tb]) :
        \A i, j \in DOMAIN tables[tb].rows :
            (i # j /\ tables[tb].rows[i][c] # Null)
                => tables[tb].rows[i][c] # tables[tb].rows[j][c]

\* The index of column c of table tb maps v to i exactly when row i holds
\* the non-Null value v in c.
IndexExact(tb, c) ==
    LET rows == tables[tb].rows
        index == indexes[tb][c]
    IN  /\ \A v \in DOMAIN index :
            /\ v # Null
            /\ index[v] + 1 \in DOMAIN rows
            /\ rows[index[v] + 1][c] = v
        /\ \A i \in DOMAIN rows :
            rows[i][c] # Null =>
                /\ rows[i][c] \in DOMAIN index
                /\ index[rows[i][c]] = i - 1

\* C2: after a successful mutation every keyed column of every table has
\* an index, and the index is exactly the map from the non-Null values
\* stored in the column to the ordinals of their rows.
IndexExactness ==
    MutationSucceeded =>
        \A tb \in DOMAIN tables :
            /\ DOMAIN indexes[tb] = KeyedColumns(tables[tb])
            /\ \A c \in DOMAIN indexes[tb] : IndexExact(tb, c)

\* C3: in every state, the row at position i of a table (counted from 0)
\* has _row_id = i.
RowOrdinals ==
    \A tb \in DOMAIN tables : \A i \in DOMAIN tables[tb].rows :
        tables[tb].rows[i]["_row_id"] = IntV(i - 1)

\* A delete has removed one row of two and left the other.
RowOrdinalsWitness ==
    /\ last.kind = "execute"
    /\ last.query.kind = "DELETE"
    /\ last.res.success
    /\ last.res.deleted_count = 1
    /\ Len(tables[last.query.table].rows) = 1

\* The value v is one a column of definition col_def may store.
Storable(col_def, v) ==
    /\ col_def.not_null => v # Null
    /\ col_def.type = "INT" => v.t \in {"null", "int"}
    /\ col_def.type = "VARCHAR(1)" => v.t \in {"null", "str"} /\ StrLen(v.s) <= 1

\* C4: an INSERT on an unknown table fails; an INSERT that fails leaves the
\* rows and indexes of every table as they were; one that succeeds has
\* appended one row that meets the NOT NULL and type constraints.
FailedInsertChangesNothing ==
    [][(last'.kind = "execute" /\ last'.query.kind = "INSERT") =>
        LET tb == last'.query.table
        IN  /\ tb \notin DOMAIN tables => ~last'.res.success
            /\ ~last'.res.success => (tables' = tables /\ indexes' = indexes)
            /\ last'.res.success =>
                /\ Len(tables'[tb].rows) = Len(tables[tb].rows) + 1
                /\ \A i \in DOMAIN tables[tb].columns :
                      Storable(tables[tb].columns[i],
                               tables'[tb].rows[Len(tables'[tb].rows)]
                                    [tables[tb].columns[i].name])]_vars

\* An INSERT has been refused for its primary key on a table with rows.
FailedInsertWitness ==
    /\ last.kind = "execute"
    /\ last.query.kind = "INSERT"
    /\ ~last.res.success
    /\ last.res.error = "Primary key violation: already exists"
    /\ Len(tables[last.query.table].rows) > 0

\* The positions of the rows of table tb that the WHERE clause of an
\* UPDATE or DELETE statement selects.
Selected(tb, where) ==
    {i \in DOMAIN tables[tb].rows :
        _matches_where_clause(tables[tb].rows[i], _parse_where_clause(where)) = "T"}

\* The value an UPDATE statement assigns, converted to the column's type.
Assigned(tb, query) ==
    _validate_type(_parse_value(query.sets[1].lit),
                   ColDef(tables[tb], query.sets[1].col).type)

\* The assignment of an UPDATE statement violates no constraint: the value
\* converts, is not a Null for a NOT NULL column, and for a keyed column
\* goes to one row at most and is held by no row.
NoViolation(tb, query) ==
    LET c == query.sets[1].col
        col_def == ColDef(tables[tb], c)
        new == Assigned(tb, query)
    IN  /\ new.ok
        /\ new.v = Null => ~col_def.not_null
        /\ (new.v # Null /\ c \in KeyedColumns(tables[tb])) =>
                /\ Cardinality(Selected(tb, query.where)) <= 1
                /\ \A i \in DOMAIN tables[tb].rows : tables[tb].rows[i][c] # new.v

\* C5: an UPDATE with a WHERE clause on an existing table whose predicate
\* selects n rows and whose assignment violates no constraint succeeds
\* with updated_count = n and leaves the new value in those rows.
UpdateThroughExecutor ==
    [][(/\ last'.kind = "execute"
        /\ last'.query.kind = "UPDATE"
        /\ last'.query.has_where
        /\ last'.query.table \in DOMAIN tables
        /\ NoViolation(last'.query.table, last'.query)) =>
            LET tb == last'.query.table
            IN  /\ last'.res.success
                /\ last'.res.updated_count = Cardinality(Selected(tb, last'.query.where))
                /\ \A i \in Selected(tb, last'.query.where) :
                      tables'[tb].rows[i][last'.query.sets[1].col]
                          = Assigned(tb, last'.query).v]_vars

\* C6: an UPDATE or a DELETE with no WHERE clause fails and leaves the rows
\* and indexes of every table as they were.
UnqualifiedMutationRefused ==
    [][(/\ last'.kind = "execute"
        /\ last'.query.kind \in {"UPDATE", "DELETE"}
        /\ ~last'.query.has_where) =>
            /\ ~last'.res.success
            /\ tables' = tables
            /\ indexes' = indexes]_vars

\* A DELETE with no WHERE clause has been refused on a table with rows.
UnqualifiedMutationWitness ==
    /\ last.kind = "execute"
    /\ last.query.kind = "DELETE"
    /\ ~last.query.has_where
    /\ ~last.res.success
    /\ last.query.table \in DOMAIN tables
    /\ Len(tables[last.query.table].rows) > 0

\* C7: a call of update_rows that raises leaves the rows and indexes of
\* every table as they were before the call.
UpdateRowsAllOrNothing ==
    [][(last'.kind = "update_rows" /\ last'.exc) =>
            (tables' = tables /\ indexes' = indexes)]_vars

\* The row holds a Null in a column that the predicate compares.
NullCompared(row, where) ==
    \E k \in DOMAIN where : where[k].op # "" /\ row[where[k].col.col] = Null

\* C8: a row with a Null in a compared column satisfies no predicate: a
\* SELECT does not return it, a DELETE keeps it, update_rows leaves it as
\* it is.
NullNeverSatisfies ==
    [][/\ (/\ last'.kind = "execute"
           /\ last'.query.kind = "SELECT"
           /\ last'.query.has_where
           /\ last'.query.columns.star
           /\ last'.res.success) =>
                \A i \in DOMAIN last'.res.rows : \A k \in DOMAIN last'.query.where :
                    RecGet(last'.res.rows[i], last'.query.where[k].col) # Null
       /\ (/\ last'.kind = "execute"
           /\ last'.query.kind = "DELETE"
           /\ last'.query.has_where
           /\ last'.res.success) =>
                LET rows == tables[last'.query.table].rows
                    nulls == {i \in DOMAIN rows : NullCompared(rows[i], last'.query.where)}
                IN  last'.res.deleted_count <= Len(rows) - Cardinality(nulls)
       /\ (last'.kind = "update_rows" /\ ~last'.exc) =>
                \A i \in DOMAIN tables[last'.table].rows :
                    NullCompared(tables[last'.table].rows[i], last'.args.where)
                        => tables'[last'.table].rows[i] = tables[last'.table].rows[i]]_vars

\* The value a column reference of a join condition resolves to on a pair
\* of rows: the column of the row of the table the reference names, of the
\* row of its own side when it names none; Null when the row has no such
\* column.
Resolved(ref, own_table, own_row, other_row) ==
    IF ref.tab = "" \/ ref.tab = own_table
    THEN RowGet(own_row, Name(ref.col))
    ELSE RowGet(other_row, Name(ref.col))

\* The records of the pairs of rows of table1 and table2 whose resolved
\* values are equal and not Null, in left-major order.
EqualPairs(query) ==
    LET rows1 == tables[query.table1].rows
        rows2 == tables[query.table2].rows
        equal == SelectSeq(Pairs(Len(rows1), Len(rows2)),
                    LAMBDA p :
                        LET l == Resolved(query.on.left, query.table1,
                                          rows1[p[1]], rows2[p[2]])
                            r == Resolved(query.on.right, query.table2,
                                          rows2[p[2]], rows1[p[1]])
                        IN  l # Null /\ l = r)
    IN  [i \in DOMAIN equal |->
            JoinedRow(tables, query.table1, query.table2,
                      rows1[equal[i][1]], rows2[equal[i][2]])]

\* C9: a SELECT * over a JOIN with no WHERE clause returns one record for
\* each pair of rows whose resolved values are equal and not Null, in
\* left-major order, and nothing else.
JoinEmitsEqualPairs ==
    (/\ last.kind = "execute"
     /\ last.query.kind = "SELECT_JOIN"
     /\ ~last.query.has_where
     /\ last.query.columns.star
     /\ last.res.success) =>
        /\ last.res.rows = EqualPairs(last.query)
        /\ last.res.count = Len(EqualPairs(last.query))

\* The value an INSERT statement gives column i of its table: that of the
\* literal at the column's place, Null for a column it leaves out.
Inserted(query, table, i) ==
    LET c == table.columns[i].name
        lit == IF ~query.has_columns THEN <<query.values[i]>>
               ELSE IF InSeq(c, query.columns)
               THEN <<query.values[CHOOSE j \in DOMAIN query.columns :
                                        query.columns[j] = c]>>
               ELSE << >>
    IN  IF lit = << >> THEN Null
        ELSE _validate_type(_parse_value(lit[1]), table.columns[i].type).v

\* SELECT * FROM tb WHERE pk = k, for an integer k
SelectByKey(tb, pk, k) ==
    [kind |-> "SELECT", table |-> tb, columns |-> Star, has_where |-> TRUE,
     where |-> <<Conjunct(Name(pk), "=", Lit(FALSE, NumeralOf(k.n)))>>]

\* C10: after a successful INSERT of a row with primary key k, the SELECT
\* of the rows with that primary key returns one row: the declared columns
\* with the inserted values, and no other field.
InsertSelectRoundTrip ==
    (/\ last.kind = "execute"
     /\ last.query.kind = "INSERT"
     /\ last.res.success
     /\ tables[last.query.table].primary_key # NoKey) =>
        LET tb == last.query.table
            table == tables[tb]
            pk == CHOOSE i \in DOMAIN table.columns :
                        table.columns[i].name = table.primary_key
            found == execute(tables, indexes,
                        SelectByKey(tb, table.primary_key,
                                    Inserted(last.query, table, pk))).res
        IN  /\ found.success
            /\ found.count = 1
            /\ found.rows = <<[i \in DOMAIN table.columns |->
                                [k |-> Name(table.columns[i].name),
                                 v |-> Inserted(last.query, table, i)]]>>

\* The rows of table tb, before the step, that satisfy the predicate of a
\* call of delete_rows.
Matching(tb, where_clause) ==
    {i \in DOMAIN tables[tb].rows :
        _matches_where_clause(tables[tb].rows[i], where_clause) = "T"}

\* The values a row holds in the columns of its table.
UserValues(table, row) == [c \in ColNames(table) |-> row[c]]

\* The index of column c of the table points at rows that hold the key,
\* and has a key for every non-Null value the column holds.
IndexConsistent(table, index, c) ==
    /\ \A v \in DOMAIN index :
            /\ v # Null
            /\ index[v] + 1 \in DOMAIN table.rows
            /\ table.rows[index[v] + 1][c] = v
    /\ \A i \in DOMAIN table.rows :
            table.rows[i][c] # Null => table.rows[i][c] \in DOMAIN index

\* C11: a call of delete_rows that returns gives the number of rows that
\* satisfied the predicate before the call; the table then holds the rows
\* that did not satisfy it, one for one in their order with the values
\* they had, each with _row_id equal to its new position, and the index of
\* every keyed column is consistent with these rows.
DeleteRemovesExactlyMatching ==
    [][(last'.kind = "delete_rows" /\ ~last'.exc) =>
        LET tb == last'.table
            gone == Matching(tb, last'.args)
            before == tables[tb].rows
            after == tables'[tb].rows
            place(i) == Cardinality({j \in 1..i : j \notin gone})
        IN  /\ last'.ret = Cardinality(gone)
            /\ Len(after) = Len(before) - Cardinality(gone)
            /\ \A i \in DOMAIN before \ gone :
                    UserValues(tables[tb], after[place(i)])
                        = UserValues(tables[tb], before[i])
            /\ \A i \in DOMAIN after : after[i]["_row_id"] = IntV(i - 1)
            /\ DOMAIN indexes'[tb] = KeyedColumns(tables'[tb])
            /\ \A c \in DOMAIN indexes'[tb] :
                    IndexConsistent(tables'[tb], indexes'[tb][c], c)
            /\ \A other \in DOMAIN tables \ {tb} :
                    tables'[other] = tables[other] /\ indexes'[other] = indexes[other]]_vars

\* delete_rows has removed the row with id 0 and kept another row.
DeleteRemovesWitness ==
    /\ last.kind = "delete_rows"
    /\ ~last.exc
    /\ last.ret = 1
    /\ Len(tables[last.table].rows) = 1
    /\ tables[last.table].rows[1]["id"] # IntV(0)
    /\ last.args = <<Cond("id", "plain", IntV(0))>>

\* C13: between statements the files hold the tables and indexes that are
\* in memory: either nothing has been written and memory is empty, or the
\* two files are what _save_tables writes for the state in memory.
WriteThrough ==
    IF disk.tables.exists \/ disk.indexes.exists
    THEN disk = _save_tables(tables, indexes)
    ELSE tables = EmptyDict /\ indexes = EmptyDict

\* What SHOW TABLES and SELECT * FROM tb return on the tables and indexes
\* given.
ShowTables(tabs, idxs) == execute(tabs, idxs, [kind |-> "SHOW", what |-> "TABLES"]).res
SelectStar(tabs, idxs, tb) == execute(tabs, idxs, Select(tb, Star, FALSE, << >>)).res

\* C12: an engine started on the directory another has written returns
\* what that one returned: the same SHOW TABLES result and, for every
\* table, the same rows of SELECT * in the same order.
ReopenRoundTrip ==
    [][last'.kind = "reopen" =>
        /\ ShowTables(tables', indexes') = ShowTables(tables, indexes)
        /\ \A tb \in DOMAIN tables :
              SelectStar(tables', indexes', tb) = SelectStar(tables, indexes, tb)]_vars

\* An engine has been started on a directory that holds table c, made
\* before table a, with one row and table a with two.
ReopenWitness ==
    /\ last.kind = "reopen"
    /\ ShowTables(tables, indexes).tables = <<"c", "a">>
    /\ SelectStar(tables, indexes, "a").count = 2
    /\ SelectStar(tables, indexes, "c").count = 1

\* The fields a successful result of each kind of statement carries.
Payload(kind) ==
    CASE kind = "INSERT" -> {"row_id"}
      [] kind \in {"SELECT", "SELECT_JOIN"} -> {"rows", "count"}
      [] kind = "UPDATE" -> {"updated_count"}
      [] kind = "DELETE" -> {"deleted_count"}
      [] kind = "SHOW" -> {"tables", "count"}
      [] kind = "DESCRIBE" -> {"table", "columns", "row_count"}
      [] OTHER -> {}

\* C15: whatever the statement, execute returns a record with the field
\* success: when it is true the record carries the fields of the
\* statement's kind, when it is false it carries an error text.
ExecutorNeverThrows ==
    last.kind = "execute" =>
        /\ "success" \in DOMAIN last.res
        /\ last.res.success \in BOOLEAN
        /\ last.res.success => Payload(last.query.kind) \subseteq DOMAIN last.res
        /\ ~last.res.success => last.res.error # ""

\* The empty text has been executed on a database with rows, and a
\* failure was returned.
ExecutorNeverThrowsWitness ==
    /\ last.kind = "execute"
    /\ last.query.kind = "EMPTY"
    /\ ~last.res.success
    /\ last.res.error = "list index out of range"
    /\ \E tb \in DOMAIN tables : Len(tables[tb].rows) > 0

\* C16: a SELECT or DELETE whose WHERE text holds no comparison returns a
\* failure and leaves the rows and indexes of every table as they were.
MalformedWhereRefused ==
    [][(/\ last'.kind = "execute"
        /\ last'.query.kind \in {"SELECT", "DELETE"}
        /\ last'.query.has_where
        /\ \A k \in DOMAIN last'.query.where : last'.query.where[k].op = "") =>
            /\ ~last'.res.success
            /\ tables' = tables
            /\ indexes' = indexes]_vars

\* C17: no record of a successful SELECT, joined or not, has the key
\* _row_id.
OrdinalNeverProjected ==
    (/\ last.kind = "execute"
     /\ last.query.kind \in {"SELECT", "SELECT_JOIN"}
     /\ last.res.success) =>
        \A i \in DOMAIN last.res.rows : \A f \in DOMAIN last.res.rows[i] :
            last.res.rows[i][f].k.col # "_row_id"

\* C18: the tables that have an index map are the tables that exist, and
\* the columns a table has an index of are its primary-key and UNIQUE
\* columns.
TablesAndIndexesTogether ==
    /\ DOMAIN indexes = DOMAIN tables
    /\ \A tb \in DOMAIN tables : DOMAIN indexes[tb] = KeyedColumns(tables[tb])

\* The number of columns flagged primary key in the columns given to
\* create_table.
PrimaryKeyCount(columns) == Cardinality({i \in DOMAIN columns : columns[i].primary_key})

\* C19: create_table with the name of an existing table, or with more
\* than one primary-key column, raises and leaves the tables, their rows
\* and their indexes as they were; so does a CREATE TABLE statement, which
\* returns a failure.
CreateTableFailsCleanly ==
    [][/\ (/\ last'.kind = "create_table"
           /\ \/ last'.table \in DOMAIN tables
              \/ PrimaryKeyCount(last'.args) > 1) =>
                (last'.exc /\ tables' = tables /\ indexes' = indexes)
       /\ (/\ last'.kind = "execute"
           /\ last'.query.kind = "CREATE"
           /\ \/ last'.query.table \in DOMAIN tables
              \/ PrimaryKeyCount(_parse_column_definitions(last'.query.col_defs)) > 1) =>
                (~last'.res.success /\ tables' = tables /\ indexes' = indexes)]_vars

\* create_table has been refused for the name of table a, which has rows
\* and other columns than the call gave.
CreateTableFailsWitness ==
    /\ last.kind = "create_table"
    /\ last.exc
    /\ last.err = "already exists"
    /\ last.table = "a"
    /\ ColNames(tables["a"]) = {"id", "u"}
    /\ Len(tables["a"].rows) > 0

\* What DESCRIBE is to list for the columns a CREATE TABLE statement
\* declares: each column in its place with its type, and the constraints
\* PRIMARY KEY and NOT NULL for a primary key, else UNIQUE and NOT NULL as
\* far as declared, none when nothing is declared.
Declared(col_defs) ==
    [i \in DOMAIN col_defs |->
        LET words == col_defs[i].constraints
            joined == IF "PRIMARY KEY" \in words
                      THEN <<"PRIMARY KEY", "NOT NULL">>
                      ELSE (IF "UNIQUE" \in words THEN <<"UNIQUE">> ELSE << >>)
                           \o (IF "NOT NULL" \in words THEN <<"NOT NULL">> ELSE << >>)
        IN  [column |-> col_defs[i].name,
             type |-> col_defs[i].type,
             constraints |-> [none |-> joined = << >>, joined |-> joined]]]

\* What DESCRIBE tb returns on the tables and indexes given.
Describe(tabs, idxs, tb) == execute(tabs, idxs, [kind |-> "DESCRIBE", table |-> tb]).res

\* C20: after a successful CREATE TABLE, DESCRIBE lists the declared
\* columns in order with their types and constraints and no rows; an
\* INSERT or DELETE changes nothing of what DESCRIBE lists but row_count;
\* and a DESCRIBE of an existing table returns the declaration of a CREATE
\* TABLE statement of that table and the number of its rows.
CreateDescribeRoundTrip ==
    [][/\ (/\ last'.kind = "execute"
           /\ last'.query.kind = "CREATE"
           /\ last'.res.success) =>
                LET d == Describe(tables', indexes', last'.query.table)
                IN  /\ d.success
                    /\ d.columns = Declared(last'.query.col_defs)
                    /\ d.row_count = 0
       /\ (/\ last'.kind = "execute"
           /\ last'.query.kind \in {"INSERT", "DELETE"}) =>
                \A tb \in DOMAIN tables :
                    LET d == Describe(tables', indexes', tb)
                    IN  /\ d.success
                        /\ d.columns = Describe(tables, indexes, tb).columns
                        /\ d.row_count = Len(tables'[tb].rows)
       /\ (/\ last'.kind = "execute"
           /\ last'.query.kind = "DESCRIBE"
           /\ last'.query.table \in DOMAIN tables) =>
                /\ last'.res.success
                /\ last'.res.row_count = Len(tables[last'.query.table].rows)
                /\ \E q \in CreateStatements :
                      /\ q.table = last'.query.table
                      /\ last'.res.columns = Declared(q.col_defs)]_vars

\* DESCRIBE c has listed the three columns of table c as declared, after
\* a row was inserted.
CreateDescribeWitness ==
    /\ last.kind = "execute"
    /\ last.query.kind = "DESCRIBE"
    /\ last.query.table = "c"
    /\ last.res.success
    /\ last.res.columns = Declared(CreateC.col_defs)
    /\ last.res.row_count = 1

\* What two statements return and leave when the second is executed after
\* the first has returned.
InOrder(start, first, second) ==
    LET r1 == execute(start.tables, start.indexes, first)
        r2 == execute(r1.tables, r1.indexes, second)
    IN  [tables |-> r2.tables, indexes |-> r2.indexes,
         first |-> r1.res, second |-> r2.res]

\* C14: when two calls of execute made by two threads have returned, the
\* results and the tables and indexes are those of the two statements
\* executed one after the other in one of the two orders.
StatementsSerialized ==
    (\A t \in Threads : pc[t].at = "done") =>
        \E t \in Threads :
            LET u == CHOOSE v \in Threads : v # t
                o == InOrder(pc[t].start, pc[t].query, pc[u].query)
            IN  /\ tables = o.tables
                /\ indexes = o.indexes
                /\ pc[t].res = o.first
                /\ pc[u].res = o.second

\* The plan of an UPDATE or DELETE statement has no predicate, or one
\* with no conjunct.
EmptyPredicate(plan) == ~plan.has_where \/ Len(plan.where) = 0

\* C21: the parser makes no plan of an UPDATE or a DELETE statement that
\* has no WHERE clause, and the executor, given the plan of an UPDATE or a
\* DELETE whose predicate is missing or empty, returns a failure and
\* leaves the rows and indexes of every table as they were.
UnqualifiedRefusedTwice ==
    [][(last'.kind = "execute" /\ last'.query.kind \in {"UPDATE", "DELETE"}) =>
        LET plan == parse(last'.query)
        IN  /\ ~last'.query.has_where => plan.exc
            /\ (~plan.exc /\ EmptyPredicate(plan)) =>
                  /\ ~last'.res.success
                  /\ tables' = tables
                  /\ indexes' = indexes]_vars

\* A call of update_rows makes one assignment, to a keyed column of its
\* table, of a value the column's type takes, and its predicate is
\* satisfied by one row and raises on none.
OneKeyedAssignment(call) ==
    /\ call.kind = "update_rows"
    /\ call.table \in DOMAIN tables
    /\ Len(call.args.updates) = 1
    /\ call.args.updates[1].col \in KeyedColumns(tables[call.table])
    /\ _validate_type(call.args.updates[1].val,
                      ColDef(tables[call.table], call.args.updates[1].col).type).ok
    /\ Cardinality(Matching(call.table, call.args.where)) = 1
    /\ \A i \in DOMAIN tables[call.table].rows :
            _matches_where_clause(tables[call.table].rows[i], call.args.where) # "E"

\* C22: update_rows assigning v to a primary-key or UNIQUE column of the
\* row it matches fails with a constraint violation exactly when another
\* row holds, in that column, a non-Null value equal to v converted to the
\* column's type.
UpdateUniquenessCheck ==
    [][OneKeyedAssignment(last') =>
        LET tb == last'.table
            c == last'.args.updates[1].col
            v == _validate_type(last'.args.updates[1].val, ColDef(tables[tb], c).type).v
            i == CHOOSE k \in Matching(tb, last'.args.where) : TRUE
        IN  (last'.exc /\ last'.err = "Constraint violation: already exists")
                <=> \E j \in DOMAIN tables[tb].rows :
                        /\ j # i
                        /\ tables[tb].rows[j][c] # Null
                        /\ tables[tb].rows[j][c] = v]_vars

\* A conjunct holds of a row's value: a plain literal and = are equality,
\* != is inequality, an order operator holds when the value is not Null
\* and stands in the order relation to the literal.
Holds(rv, op, literal) ==
    CASE op \in {"plain", "="} -> rv = literal
      [] op = "!=" -> rv # literal
      [] op = ">" -> rv # Null /\ Comparable(rv, literal) /\ PyLess(literal, rv)
      [] op = "<" -> rv # Null /\ Comparable(rv, literal) /\ PyLess(rv, literal)
      [] op = ">=" -> rv # Null /\ Comparable(rv, literal) /\ ~PyLess(rv, literal)
      [] op = "<=" -> rv # Null /\ Comparable(rv, literal) /\ ~PyLess(literal, rv)

\* The rows of table tb, in table order, of which every conjunct of the
\* predicate holds.
Satisfying(tb, predicate) ==
    SelectSeq(tables[tb].rows,
        LAMBDA row : \A k \in DOMAIN predicate :
            Holds(RowGet(row, predicate[k].col), predicate[k].op, predicate[k].val))

\* C23: a SELECT * that succeeds returns, in table order, exactly the
\* rows of which every conjunct of its predicate holds, and all the rows
\* when it has no predicate.
PredicateSelection ==
    (/\ last.kind = "execute"
     /\ last.query.kind = "SELECT"
     /\ last.query.columns.star
     /\ last.res.success) =>
        LET tb == last.query.table
            expected == Satisfying(tb,
                            IF last.query.has_where
                            THEN _parse_where_clause(last.query.where) ELSE << >>)
        IN  /\ last.res.count = Len(expected)
            /\ last.res.rows = [i \in DOMAIN expected |->
                                  ProjectRow(tables[tb], expected[i], TRUE, << >>)]

\* A SELECT with two conjuncts has returned the one row of two of which
\* both hold; the first conjunct holds of the other row too.
PredicateSelectionWitness ==
    /\ last.kind = "execute"
    /\ last.query.kind = "SELECT"
    /\ last.res.success
    /\ Len(last.query.where) = 2
    /\ Len(tables[last.query.table].rows) = 2
    /\ last.res.count = 1
    /\ \A i \in DOMAIN tables[last.query.table].rows :
            Holds(tables[last.query.table].rows[i]["id"], ">=", IntV(0))

\* The pairs of row positions a join statement puts together: those the
\* executor's ON condition accepts, in left-major order.
JoinedPairs(query) ==
    LET rows1 == tables[query.table1].rows
        rows2 == tables[query.table2].rows
    IN  SelectSeq(Pairs(Len(rows1), Len(rows2)),
            LAMBDA p : _evaluate_join_condition(rows1[p[1]], rows2[p[2]],
                            [left |-> query.on.left, right |-> query.on.right],
                            query.table1, query.table2))

\* The keys table.col of the declared columns of table tb, in column order.
SideKeys(tb) ==
    [i \in DOMAIN tables[tb].columns |-> QName(tb, tables[tb].columns[i].name)]

\* The record has one field of key tb.c for every declared column c of
\* table tb, and the field holds the value the row has in c.
CarriesSide(record, tb, row) ==
    \A c \in ColNames(tables[tb]) :
        /\ Cardinality({f \in DOMAIN record : record[f].k = QName(tb, c)}) = 1
        /\ RecGet(record, QName(tb, c)) = row[c]

\* C24: the records of a SELECT * over a JOIN with no WHERE clause are
\* those of the joined pairs of rows, one for one; each has the keys
\* table.col of the declared columns of the left table in column order,
\* then those of the right table, and no other key, and under each key
\* the value of the row of that side; also when a table is joined with
\* itself (its keys then stand once).
JoinedRecordShape ==
    (/\ last.kind = "execute"
     /\ last.query.kind = "SELECT_JOIN"
     /\ ~last.query.has_where
     /\ last.query.columns.star
     /\ last.res.success) =>
        LET t1 == last.query.table1
            t2 == last.query.table2
            pairs == JoinedPairs(last.query)
        IN  /\ Len(last.res.rows) = Len(pairs)
            /\ \A i \in DOMAIN pairs :
                LET record == last.res.rows[i]
                IN  /\ [f \in DOMAIN record |-> record[f].k]
                            = IF t1 = t2 THEN SideKeys(t1)
                              ELSE SideKeys(t1) \o SideKeys(t2)
                    /\ CarriesSide(record, t1, tables[t1].rows[pairs[i][1]])
                    /\ CarriesSide(record, t2, tables[t2].rows[pairs[i][2]])

\* The key of a joined record that a name of a WHERE clause or of a
\* projection stands for: the name when it is a key of the record, else
\* the first key table.name of the record for a name without a table;
\* << >> when there is no such key.
StandsFor(record, name) ==
    LET keys == [f \in DOMAIN record |-> record[f].k]
        suffixed == {f \in DOMAIN keys : name.tab = "" /\ keys[f].col = name.col}
    IN  IF InSeq(name, keys) THEN <<name>>
        ELSE IF suffixed = {} THEN << >>
        ELSE <<keys[CHOOSE f \in suffixed : \A g \in suffixed : f <= g]>>

\* The value a name has in a joined record: Null when it stands for no key.
ValueOf(record, name) ==
    IF StandsFor(record, name) = << >> THEN Null
    ELSE RecGet(record, StandsFor(record, name)[1])

\* The projection of a joined record on a list of names: the names that
\* stand for a key, in the order of the list, each with its value.
Projection(record, names) ==
    LET found == SelectSeq(names, LAMBDA n : StandsFor(record, n) # << >>)
    IN  [j \in DOMAIN found |-> [k |-> found[j], v |-> ValueOf(record, found[j])]]

\* The joined records of a statement before its WHERE clause and its
\* projection are applied.
Records(query) ==
    execute(tables, indexes,
            [query EXCEPT !.columns = Star, !.has_where = FALSE, !.where = << >>]).res.rows

\* C25: a join on two existing tables that succeeds returns the joined
\* records in which every conjunct of the WHERE clause holds of the value
\* its name stands for (Null when it stands for no key), projected on the
\* names of the column list that stand for a key; a name that both tables
\* have as a column stands for the left table's key; and a WHERE clause
\* none of whose names stands for a key does not make the join fail.
ColumnResolution ==
    (/\ last.kind = "execute"
     /\ last.query.kind = "SELECT_JOIN"
     /\ {last.query.table1, last.query.table2} \subseteq DOMAIN tables) =>
        LET q == last.query
            base == Records(q)
            predicate == IF q.has_where THEN _parse_where_clause(q.where) ELSE << >>
            kept == SelectSeq(base,
                        LAMBDA record : \A k \in DOMAIN predicate :
                            Holds(ValueOf(record, predicate[k].col),
                                  predicate[k].op, predicate[k].val))
        IN  /\ last.res.success =>
                  last.res.rows = [i \in DOMAIN kept |->
                                      IF q.columns.star THEN kept[i]
                                      ELSE Projection(kept[i], q.columns.names)]
            /\ (\A k \in DOMAIN predicate : \A i \in DOMAIN base :
                    StandsFor(base[i], predicate[k].col) = << >>)
                  => last.res.success
            /\ \A i \in DOMAIN base :
                  \A n \in ColNames(tables[q.table1]) \cap ColNames(tables[q.table2]) :
                      StandsFor(base[i], Name(n)) = <<QName(q.table1, n)>>

\* SELECT k, c.k, zz FROM b JOIN c has returned a record in which k is the
\* value of b.k, another value than c.k has, and zz is absent.
ColumnResolutionWitness ==
    /\ last.kind = "execute"
    /\ last.query.kind = "SELECT_JOIN"
    /\ last.query.columns = Columns(<<Name("k"), QName("c", "k"), Name("zz")>>)
    /\ last.res.success
    /\ \E i \in DOMAIN last.res.rows :
          /\ Len(last.res.rows[i]) = 2
          /\ RecGet(last.res.rows[i], Name("k")) = IntV(0)
          /\ RecGet(last.res.rows[i], QName("c", "k")) = IntV(1)

\* The declared columns of the table that the column list of an INSERT
\* statement leaves out.
Absent(query, table) ==
    ColNames(table) \ {query.columns[i] : i \in DOMAIN query.columns}

\* Every value of an INSERT statement with a column list is one the type
\* of its column takes.
ListedValuesConvert(query, table) ==
    \A i \in DOMAIN query.columns :
        query.columns[i] \in ColNames(table) =>
            _validate_type(_parse_value(query.values[i]),
                           ColDef(table, query.columns[i]).type).ok

NotNullInvariant ==
    /\ \A tb \in DOMAIN tables : \A i \in DOMAIN tables[tb].rows :
          \A c \in ColNames(tables[tb]) :
              (ColDef(tables[tb], c).not_null \/ ColDef(tables[tb], c).primary_key)
                  => tables[tb].rows[i][c] # Null
    /\ (/\ last.kind = "update_rows"
        /\ last.table \in DOMAIN tables
        /\ \E k \in DOMAIN last.args.updates :
              /\ last.args.updates[k].val = Null
              /\ last.args.updates[k].col \in ColNames(tables[last.table])
              /\ \/ ColDef(tables[last.table], last.args.updates[k].col).not_null
                 \/ ColDef(tables[last.table], last.args.updates[k].col).primary_key)
          => (last.exc \/ last.ret = 0)

\* The errors insert_row raises for a primary-key or UNIQUE conflict.
ConstraintErrors ==
    {"Primary key violation: already exists",
     "Unique constraint violation: already exists"}

\* C28: when the engine is started again on its directory, every INSERT
\* that failed with a primary-key or UNIQUE violation in the engine that
\* wrote the files fails with the same result in the engine that read
\* them.
ConstraintsSurviveRestart ==
    [][last'.kind = "reopen" =>
        \A q \in InsertStatementsFiles :
            LET before == execute(tables, indexes, q).res
            IN  (~before.success /\ before.error \in ConstraintErrors)
                    => execute(tables', indexes', q).res = before]_vars

\* The table an INSERT or DELETE statement or a call of insert_row,
\* update_rows or delete_rows is made on; "" for every other step.
Target(l) ==
    CASE l.kind = "execute" /\ l.query.kind \in {"INSERT", "UPDATE", "DELETE"} ->
            l.query.table
      [] l.kind \in {"insert_row", "update_rows", "delete_rows"} -> l.table
      [] OTHER -> ""

\* The positions in table T of the rows whose primary-key value a row of
\* another table holds in one of its columns.
ReferredTo(T) ==
    {i \in DOMAIN tables[T].rows :
        /\ tables[T].primary_key # NoKey
        /\ tables[T].rows[i][tables[T].primary_key] # Null
        /\ \E tb \in DOMAIN tables \ {T} : \E j \in DOMAIN tables[tb].rows :
              \E c \in ColNames(tables[tb]) :
                  tables[tb].rows[j][c] = tables[T].rows[i][tables[T].primary_key]}

\* C29: an INSERT, an UPDATE or a DELETE on table T leaves every table in
\* place and the rows, the ordinal and the index maps of every other
\* table as they were; a DELETE whose predicate holds of a row that rows
\* of another table refer to succeeds and removes the row.
TableIsolation ==
    [][Target(last') # "" =>
        LET T == Target(last')
        IN  /\ DOMAIN tables' = DOMAIN tables
            /\ DOMAIN indexes' = DOMAIN indexes
            /\ \A tb \in DOMAIN tables \ {T} : tables'[tb] = tables[tb]
            /\ \A tb \in DOMAIN indexes \ {T} : indexes'[tb] = indexes[tb]
            /\ (/\ last'.kind = "execute"
                /\ last'.query.kind = "DELETE"
                /\ T \in DOMAIN tables
                /\ last'.query.has_where)
                  => LET predicate == _parse_where_clause(last'.query.where)
                         gone == {i \in ReferredTo(T) :
                                    \A k \in DOMAIN predicate :
                                        Holds(RowGet(tables[T].rows[i], predicate[k].col),
                                              predicate[k].op, predicate[k].val)}
                     IN  gone # {} =>
                            /\ last'.res.success
                            /\ last'.res.deleted_count >= Cardinality(gone)
                            /\ \A i \in gone : \A j \in DOMAIN tables'[T].rows :
                                  tables'[T].rows[j][tables[T].primary_key]
                                        # tables[T].rows[i][tables[T].primary_key]]_vars

\* Row 0 of table a has been deleted while a row of table b holds 0 in k
\* and table c has a row; b and c have the rows and indexes they had.
TableIsolationWitness ==
    /\ last.kind = "execute"
    /\ last.query.kind = "DELETE"
    /\ last.query.table = "a"
    /\ last.res.success
    /\ last.res.deleted_count = 1
    /\ {"a", "b", "c"} \subseteq DOMAIN tables
    /\ \E j \in DOMAIN tables["b"].rows : tables["b"].rows[j]["k"] = IntV(0)
    /\ Len(tables["c"].rows) = 2
    /\ DOMAIN indexes["c"]["p"] # {}

\* C30: an INSERT whose column list names a column the table does not
\* declare returns a failure and adds no row.
UnknownColumnsRejected ==
    [][(/\ last'.kind = "execute"
        /\ last'.query.kind = "INSERT"
        /\ last'.query.has_columns
        /\ last'.query.table \in DOMAIN tables
        /\ \E i \in DOMAIN last'.query.columns :
              last'.query.columns[i] \notin ColNames(tables[last'.query.table]))
          => /\ ~last'.res.success
             /\ tables' = tables]_vars

====
